---- MODULE Spec2Model ----
(***************************************************************************)
(* Combat engine of xiuxian-mud.                                           *)
(*                                                                         *)
(* Part I   - the combat session state machine of src/web/combat_routes.py *)
(*            (start, action, auto-resolve requests on the session         *)
(*            registry).                                                   *)
(* Part II  - the element table and DamageCalculator of                    *)
(*            src/combat/damage.py.                                        *)
(* Part III - CombatSkill / SkillExecutor of src/combat/skills.py.         *)
(* Part IV  - the skill registry of src/combat/skills.py.                  *)
(* Part V   - the login streak tracker of src/progression/daily_activity.py *)
(*            and its routes in src/web/offline_routes.py.                 *)
(* Part VI  - equipment slots and inventory: PlayerEquipment of            *)
(*            src/equipment/models.py and Player of src/models/player.py.  *)
(*                                                                         *)
(* Floating point factors are kept as integers: skill multipliers in       *)
(* tenths (1.5 -> 15), the random.uniform(0.9, 1.1) variance in percent,   *)
(* element and crit factors in hundredths.  int() is truncation.           *)
(* Skill names are transliterated to ASCII.                                *)
(***************************************************************************)
EXTENDS Integers, Sequences, FiniteSets, TLC

VARIABLES
    combat_sessions,   \* registry: session id -> CombatSession
    autoreq,           \* the auto_combat request in flight (its for-loop position)
    resp,              \* the response of the last request that returned
    auto_outcomes,     \* history: statuses reported by auto results, by cap reached or not
    credited,          \* number of times the victory reward was saved to the player
    hit,               \* DamageCalculator: the hit being resolved and its DamageResult
    strike,            \* combat_routes.py: a calculate_damage call on two player entities
    daily,             \* DailyActivityManager: the activity record, the clock and the last call
    gear,              \* a PlayerEquipment and a Player: slots, inventory and the last call
    unit,              \* skills.py: caster and candidate targets (CombatUnit)
    skill,             \* skills.py: the CombatSkill instance in use
    actions,           \* skills.py: the list returned by the last execute_skill
    call,              \* skills.py: the last call made and the history of calls
    SKILL_REGISTRY,    \* skills.py: skill id -> reference to the registered template
    heap,              \* skills.py: the CombatSkill objects and effect lists that exist
    regcall,           \* skills.py: the last registry / instance call made
    trace,             \* what the last action request did (enemy phase, hits, draws)
    inflight           \* action requests running concurrently on one session

vars == <<combat_sessions, autoreq, resp, auto_outcomes, credited, hit, strike, daily, gear, unit, skill, actions, call, SKILL_REGISTRY, heap, regcall, trace, inflight>>
sessionVars == <<combat_sessions, autoreq, resp, auto_outcomes, credited>>
damageVars == <<hit>>
skillVars == <<unit, skill, actions, call>>
registryVars == <<SKILL_REGISTRY, heap, regcall>>

(***************************************************************************)
(* Bounds                                                                  *)
(***************************************************************************)
\* requests are accepted while the session's turn counter is below this
MaxTurnCount == 2
\* largest caller-supplied max_turns of an auto-resolve request
MaxAutoTurns == 2

Max(a, b) == IF a >= b THEN a ELSE b
Min(a, b) == IF a <= b THEN a ELSE b

\* int(): truncation toward zero of the rational n / d, d > 0
Trunc(n, d) == IF n >= 0 THEN n \div d ELSE -((-n) \div d)

(***************************************************************************)
(* Part I - combat_routes.py                                               *)
(***************************************************************************)
ACTIVE == "active"
VICTORY == "victory"
DEFEAT == "defeat"
FLED == "fled"

SessionIds == {"s1"}

\* the random.uniform(0.9, 1.1) draw, in percent
Variances == {90, 110}

\* caller-supplied heal_amount of an item action (50 is the default)
HealAmounts == {-5, 1, 50}

Sk(m, t) ==
    [multiplier |-> m, damage_type |-> t, heal_amount |-> 0, attack_buff |-> 0,
     defense_buff |-> 0, speed_buff |-> 0, dodge_buff |-> 0, aoe |-> FALSE,
     lifesteal |-> 0, stun |-> FALSE, slow |-> FALSE, dot |-> FALSE]

\* skill_effects.get(skill_name, {"multiplier": 1.0, "damage_type": "physical"})
\* multiplier and lifesteal in tenths
SkillEffectOf(name) ==
    CASE name = "siyao" -> Sk(12, "physical")
      [] name = "langzhua" -> Sk(10, "physical")
      [] name = "huoqiushu" -> Sk(15, "fire")
      [] name = "lieyanchongji" -> Sk(20, "fire")
      [] name = "ranshao" -> [Sk(5, "fire") EXCEPT !.dot = TRUE]
      [] name = "bingfengshu" -> [Sk(13, "ice") EXCEPT !.slow = TRUE]
      [] name = "hanbingci" -> Sk(18, "ice")
      [] name = "dongjie" -> [Sk(10, "ice") EXCEPT !.stun = TRUE]
      [] name = "bingshuanghudun" -> [Sk(0, "buff") EXCEPT !.defense_buff = 20]
      [] name = "yaowangzhan" -> Sk(25, "dark")
      [] name = "yaoqihuti" -> [Sk(0, "buff") EXCEPT !.defense_buff = 30]
      [] name = "shehunshu" -> [Sk(15, "dark") EXCEPT !.lifesteal = 3]
      [] name = "yaohuofentian" -> [Sk(30, "fire") EXCEPT !.aoe = TRUE]
      [] name = "xieqizhan" -> Sk(14, "dark")
      [] name = "xixueshu" -> [Sk(12, "dark") EXCEPT !.lifesteal = 5]
      [] name = "yanshizhuangji" -> Sk(16, "earth")
      [] name = "shihua" -> [Sk(5, "earth") EXCEPT !.stun = TRUE]
      [] name = "dizhen" -> [Sk(20, "earth") EXCEPT !.aoe = TRUE]
      [] name = "qingyunjianjue" -> Sk(15, "wind")
      [] name = "qingfengjue" -> Sk(12, "wind")
      [] name = "liuyunbufa" -> [Sk(0, "buff") EXCEPT !.speed_buff = 20]
      [] name = "jindingjue" -> Sk(14, "fire")
      [] name = "sanmeizhenhuo" -> Sk(22, "fire")
      [] name = "jiudinglianshu" -> [Sk(0, "buff") EXCEPT !.defense_buff = 25]
      [] name = "wanhuayishu" -> [Sk(0, "heal") EXCEPT !.heal_amount = 50]
      [] name = "lianjinsan" -> Sk(13, "poison")
      [] name = "huichunshu" -> [Sk(0, "heal") EXCEPT !.heal_amount = 80]
      [] name = "dushujingtong" -> [Sk(10, "poison") EXCEPT !.dot = TRUE]
      [] name = "xiaoyaobu" -> [Sk(0, "buff") EXCEPT !.speed_buff = 30]
      [] name = "wuxianggongfa" -> Sk(16, "physical")
      [] name = "xiaoyaoxinfa" -> [Sk(0, "heal") EXCEPT !.heal_amount = 30]
      [] name = "xiaoyaoyoushen" -> [Sk(0, "buff") EXCEPT !.dodge_buff = 25]
      [] name = "shushanjianfa" -> Sk(18, "physical")
      [] name = "baguazhangfa" -> Sk(15, "physical")
      [] name = "jingangfumogong" -> Sk(20, "physical")
      [] name = "neigongxinfa" -> [Sk(0, "buff") EXCEPT !.attack_buff = 20]
      [] OTHER -> Sk(10, "physical")

\* CombatEntity (name, level and stage play no part in resolution)
CombatEntity(id, hp, attack, defense, speed, etype, skills) ==
    [id |-> id, hp |-> hp, max_hp |-> hp, attack |-> attack, defense |-> defense,
     speed |-> speed, entity_type |-> etype, skills |-> skills, buffs |-> <<>>,
     is_defending |-> FALSE]

\* entity reference: 0 is session.player, i >= 1 is session.enemies[i]
Ent(s, r) == IF r = 0 THEN s.player ELSE s.enemies[r]
SetEnt(s, r, e) ==
    IF r = 0 THEN [s EXCEPT !.player = e] ELSE [s EXCEPT !.enemies[r] = e]

\* what a request does is noted in the session's ev field, a set of events,
\* while the request is served; ev is empty in every session at rest
NoEvent ==
    [kind |-> "", by |-> -1, on |-> -1, what |-> "", attack |-> 0, defense |-> 0,
     mult |-> 0, damage |-> 0, defending |-> FALSE, roll |-> 0, speed |-> 0,
     all_down |-> FALSE, duration |-> 0, value |-> 0, hp |-> 0, at |-> 0,
     living |-> {}, able |-> {}]
Note(s, e) == [s EXCEPT !.ev = @ \cup {e}]
Quiet(s) == [s EXCEPT !.ev = {}]

\* session.log.append(...): the log is append-only and never read by the
\* engine; the model keeps the number of lines appended
Log(s, kind, r) == [s EXCEPT !.log = @ + 1]

\* a call of calculate_damage(attacker, defender, mult) that returned damage;
\* the hits on the player (entity 0) are noted, with the hp they found
HitEvent(s, attacker, a, defender, t, mult, damage) ==
    IF t = 0
    THEN Note(s, [NoEvent EXCEPT !.kind = "hit", !.by = a, !.on = t,
                                 !.attack = attacker.attack, !.defense = defender.defense,
                                 !.mult = mult, !.damage = damage,
                                 !.defending = defender.is_defending,
                                 !.hp = defender.hp])
    ELSE s

\* entity r has finished an action (for an enemy: actions.append(action));
\* at is the number of actions of the request before it, defending is r's
\* flag at that point, all_down whether the player has left no enemy with
\* hp > 0
Acted(s, r, what) ==
    Note(s, [NoEvent EXCEPT !.kind = "act", !.by = r, !.what = what,
                            !.at = Cardinality({e \in s.ev : e.kind = "act"}),
                            !.defending = Ent(s, r).is_defending,
                            !.all_down = /\ r = 0
                                         /\ \A i \in 1..Len(s.enemies) : s.enemies[i].hp <= 0])

\* calculate_damage without the defensive-stance branch
calculate_damage_undefended(attacker, defender, mult, crit, var) ==
    LET b0 == Max(1, attacker.attack - (defender.defense \div 2))
        b2 == IF crit THEN Trunc(b0 * 15, 10) ELSE b0
        damage == Trunc(b2 * mult * var, 1000)
    IN  Max(1, damage)

\* calculate_damage with its two random draws made explicit
calculate_damage(attacker, defender, mult, crit, var) ==
    LET b0 == Max(1, attacker.attack - (defender.defense \div 2))
        b1 == IF defender.is_defending THEN b0 \div 2 ELSE b0
        b2 == IF crit THEN Trunc(b1 * 15, 10) ELSE b1
        damage == Trunc(b2 * mult * var, 1000)
    IN  Max(1, damage)

DamageDraws(attacker, defender, mult) ==
    {calculate_damage(attacker, defender, mult, c, v) : c \in BOOLEAN, v \in Variances}

AliveEnemies(s) == {i \in 1..Len(s.enemies) : s.enemies[i].hp > 0}
FirstAlive(s) == CHOOSE i \in AliveEnemies(s) : \A j \in AliveEnemies(s) : i <= j

\* tgt.buffs.append(b) that renews the entry of the same type when there is one
AddBuffRenewing(s, a, t, b) ==
    LET e == Ent(s, t)
        same == {k \in 1..Len(e.buffs) : e.buffs[k].type = b.type}
        buffs == IF same = {} THEN Append(e.buffs, b)
                 ELSE [k \in 1..Len(e.buffs) |-> IF k \in same THEN b ELSE e.buffs[k]]
    IN  Note(SetEnt(s, t, [e EXCEPT !.buffs = buffs]),
             [NoEvent EXCEPT !.kind = "status", !.by = a, !.on = t, !.what = b.type,
                             !.duration = b.duration, !.value = b.value])

\* tgt.buffs.append(b), by entity a on entity t; the entry appended is noted
AddBuff(s, a, t, b) ==
    Note(SetEnt(s, t, [Ent(s, t) EXCEPT !.buffs = Append(@, b)]),
         [NoEvent EXCEPT !.kind = "status", !.by = a, !.on = t, !.what = b.type,
                         !.duration = b.duration, !.value = b.value])

\* one pass of "for tgt in targets" in execute_skill, for a given damage
SkillHit(s, a, t, eff, damage) ==
    LET tgt0 == Ent(s, t)
        s1 == HitEvent(SetEnt(s, t, [tgt0 EXCEPT !.hp = Max(0, @ - damage)]),
                       Ent(s, a), a, tgt0, t, eff.multiplier, damage)
        att == Ent(s1, a)
        heal == Trunc(damage * eff.lifesteal, 10)
        s2 == IF eff.lifesteal > 0
              THEN SetEnt(s1, a, [att EXCEPT !.hp = Min(att.max_hp, att.hp + heal)])
              ELSE s1
        s3 == IF eff.stun
              THEN AddBuff(s2, a, t, [type |-> "stun", duration |-> 1, value |-> 0])
              ELSE s2
        s4 == IF eff.slow
              THEN AddBuff(s3, a, t, [type |-> "slow", duration |-> 2, value |-> -10])
              ELSE s3
    IN  IF eff.dot
        THEN AddBuff(s4, a, t, [type |-> "dot", duration |-> 3, value |-> damage \div 3])
        ELSE s4

RECURSIVE SkillHits(_, _, _, _, _)
SkillHits(s, a, targets, eff, k) ==
    IF k > Len(targets) THEN {s}
    ELSE LET t == targets[k] IN
         IF Ent(s, t).hp <= 0 THEN SkillHits(s, a, targets, eff, k + 1)
         ELSE UNION {SkillHits(SkillHit(s, a, t, eff, d), a, targets, eff, k + 1) :
                        d \in DamageDraws(Ent(s, a), Ent(s, t), eff.multiplier)}

RECURSIVE AliveSeq(_, _)
AliveSeq(s, i) ==
    IF i > Len(s.enemies) THEN <<>>
    ELSE IF s.enemies[i].hp > 0 THEN <<i>> \o AliveSeq(s, i + 1)
    ELSE AliveSeq(s, i + 1)

\* execute_skill(attacker, target, skill_name, session): the sessions it can leave
execute_skill(s, a, t, name) ==
    LET eff == SkillEffectOf(name)
        att == Ent(s, a)
    IN  IF eff.damage_type = "heal"
        THEN LET actual_heal == Min(eff.heal_amount, att.max_hp - att.hp)
             IN  {Log(SetEnt(s, a, [att EXCEPT !.hp = @ + actual_heal]), "skill_heal", a)}
        ELSE IF eff.damage_type = "buff"
        THEN LET a1 == [att EXCEPT !.attack = @ + eff.attack_buff,
                                   !.defense = @ + eff.defense_buff,
                                   !.speed = @ + eff.speed_buff]
                 s1 == SetEnt(s, a, a1)
                 s2 == IF eff.dodge_buff > 0
                       THEN AddBuff(s1, a, a, [type |-> "dodge", duration |-> 3,
                                               value |-> eff.dodge_buff])
                       ELSE s1
             IN  {Log(s2, "skill_buff", a)}
        ELSE LET targets == IF eff.aoe
                            THEN IF att.entity_type = "player" THEN AliveSeq(s, 1)
                                 ELSE IF s.player.hp > 0 THEN <<0>> ELSE <<>>
                            ELSE <<t>>
             IN  {Log(s2, "skill_damage", a) : s2 \in SkillHits(s, a, targets, eff, 1)}

\* entity.buffs.remove(buff): the list without its first entry equal to buff
RECURSIVE Remove(_, _)
Remove(live, buff) ==
    IF live = <<>> THEN <<>>
    ELSE IF Head(live).buff = buff THEN Tail(live)
    ELSE <<Head(live)>> \o Remove(Tail(live), buff)

\* the status pass at the end of process_enemy_turn, for one entity: the loop
\* runs over the copy entity.buffs[:], whose k-th dict is the one tagged k in
\* the list live it mutates
RECURSIVE TickBuffs(_, _, _)
TickBuffs(e, live, k) ==
    IF k > Len(e.buffs) THEN [e EXCEPT !.buffs = [j \in 1..Len(live) |-> live[j].buff]]
    ELSE LET b == e.buffs[k]
             b1 == [b EXCEPT !.duration = @ - 1]
             live1 == [j \in 1..Len(live) |-> IF live[j].at = k THEN [live[j] EXCEPT !.buff = b1]
                                              ELSE live[j]]
             live2 == IF b1.duration <= 0 THEN Remove(live1, b1) ELSE live1
         IN  IF b.duration > 0
             THEN TickBuffs([e EXCEPT !.hp = IF b.type = "dot" THEN Max(0, @ - b.value) ELSE @],
                            live2, k + 1)
             ELSE TickBuffs(e, live, k + 1)

\* the status pass, were the "if entity.hp <= 0: continue" left out
TickEntityPerished(e) ==
    TickBuffs(e, [k \in 1..Len(e.buffs) |-> [at |-> k, buff |-> e.buffs[k]]], 1)

TickEntity(e) ==
    IF e.hp <= 0 THEN e
    ELSE TickBuffs(e, [k \in 1..Len(e.buffs) |-> [at |-> k, buff |-> e.buffs[k]]], 1)

TickAll(s) ==
    [s EXCEPT !.player = TickEntity(@),
              !.enemies = [i \in 1..Len(s.enemies) |-> TickEntity(s.enemies[i])]]

\* the AI decision of one enemy, were the stun check left out
EnemyActUnstunned(s, i) ==
    LET enemy == s.enemies[i]
        plain == {Log(HitEvent([s EXCEPT !.player.hp = Max(0, @ - d)],
                               enemy, i, s.player, 0, 10, d), "attack", i) :
                     d \in DamageDraws(enemy, s.player, 10)}
        skilled == UNION {execute_skill(s, i, 0, enemy.skills[k]) : k \in 1..Len(enemy.skills)}
        defend == {Log([s EXCEPT !.enemies[i].is_defending = TRUE], "defend", i)}
        wait == {Log(s, "wait", i)}
    IN  IF enemy.hp <= 0 THEN {s}
        ELSE (IF s.player.hp > 0
              THEN {Acted(s2, i, "attack") : s2 \in plain}
                   \cup {Acted(s2, i, "skill") : s2 \in skilled}
              ELSE {})
             \cup {Acted(s2, i, "defend") : s2 \in defend}
             \cup {Acted(s2, i, "wait") : s2 \in wait}

\* the AI decision of one enemy in process_enemy_turn
EnemyAct(s, i) ==
    LET enemy == s.enemies[i]
        stunned == \E k \in 1..Len(enemy.buffs) : enemy.buffs[k].type = "stun"
        plain == {Log(HitEvent([s EXCEPT !.player.hp = Max(0, @ - d)],
                               enemy, i, s.player, 0, 10, d), "attack", i) :
                     d \in DamageDraws(enemy, s.player, 10)}
        skilled == UNION {execute_skill(s, i, 0, enemy.skills[k]) : k \in 1..Len(enemy.skills)}
        defend == {Log([s EXCEPT !.enemies[i].is_defending = TRUE], "defend", i)}
        wait == {Log(s, "wait", i)}
    IN  IF enemy.hp <= 0 THEN {s}
        ELSE IF stunned THEN {Log(s, "stunned", i)}
        ELSE (IF s.player.hp > 0
              THEN {Acted(s2, i, "attack") : s2 \in plain}
                   \cup {Acted(s2, i, "skill") : s2 \in skilled}
              ELSE {})
             \cup {Acted(s2, i, "defend") : s2 \in defend}
             \cup {Acted(s2, i, "wait") : s2 \in wait}

RECURSIVE EnemyLoop(_, _)
EnemyLoop(s, i) ==
    IF i > Len(s.enemies) THEN {s}
    ELSE UNION {EnemyLoop(s2, i + 1) : s2 \in EnemyAct(s, i)}

\* the enemies with hp > 0 and no stun entry
AbleEnemies(s) ==
    {i \in AliveEnemies(s) :
        \A k \in 1..Len(s.enemies[i].buffs) : s.enemies[i].buffs[k].type # "stun"}

\* the phase is noted with the enemies it found living and able to act, the
\* status pass with the hp it found each entity with
process_enemy_turn(s) ==
    {[TickAll(s2) EXCEPT !.ev = @ \cup {[NoEvent EXCEPT !.kind = "tick", !.on = r,
                                                         !.hp = Ent(s2, r).hp] :
                                           r \in 0..Len(s2.enemies)}] :
        s2 \in EnemyLoop(Note(s, [NoEvent EXCEPT !.kind = "phase",
                                                  !.living = AliveEnemies(s),
                                                  !.able = AbleEnemies(s)]), 1)}

check_combat_end(s) ==
    IF s.player.hp <= 0 THEN [s EXCEPT !.status = DEFEAT]
    ELSE IF \A i \in 1..Len(s.enemies) : s.enemies[i].hp <= 0
    THEN [s EXCEPT !.status = VICTORY]
    ELSE s

\* all_entities.sort(key=lambda e: e.speed, reverse=True): stable, descending
RECURSIVE InsertBySpeed(_, _, _)
InsertBySpeed(sorted, r, speedOf) ==
    IF sorted = <<>> THEN <<r>>
    ELSE IF speedOf[Head(sorted)] > speedOf[r]
    THEN <<Head(sorted)>> \o InsertBySpeed(Tail(sorted), r, speedOf)
    ELSE <<r>> \o sorted

RECURSIVE SortBySpeed(_, _, _)
SortBySpeed(n, k, speedOf) ==
    IF k > n THEN <<>>
    ELSE InsertBySpeed(SortBySpeed(n, k + 1, speedOf), k, speedOf)

\* stat bundles a session can be built from (player aggregate, monster
\* template after level scaling); magnitudes are kept small
P1 == [hp |-> 4, attack |-> 3, defense |-> 0, speed |-> 10,
       skills |-> <<"dushujingtong", "huichunshu">>]
P2 == [hp |-> 3, attack |-> 1, defense |-> 2, speed |-> 100,
       skills |-> <<"neigongxinfa">>]
M1 == [hp |-> 4, attack |-> 2, defense |-> 0, speed |-> 12,
       skills |-> <<"siyao">>]
M2 == [hp |-> 2, attack |-> 4, defense |-> 2, speed |-> 25,
       skills |-> <<"ranshao", "dongjie">>]

\* enemy_counts of start_combat
EnemyCount(difficulty) ==
    CASE difficulty = "easy" -> 1
      [] difficulty = "normal" -> 2
      [] difficulty = "hard" -> 3
      [] difficulty = "boss" -> 1
      [] OTHER -> 2

\* start requests: difficulty, the stored player, the monster enemy_type names
StartRequests ==
    {[difficulty |-> "easy", player |-> p, monster |-> m] : p \in {P1, P2}, m \in {M1, M2}}
    \cup {[difficulty |-> "normal", player |-> P2, monster |-> M1]}

\* challenger and challenged player of a PvP session
PvpRequests == {<<P1, P2>>, <<P2, P1>>}

NoAuto == [active |-> FALSE, sid |-> "", turn |-> 0, max_turns |-> 0, done |-> FALSE]
\* cap_reached is not a field of the response: it records whether the for
\* loop of auto_combat ran out of iterations
NoResp == [req |-> "none", sid |-> "", code |-> 0, error |-> "", status |-> "",
           turns |-> 0, cap_reached |-> FALSE]

Idle == ~autoreq.active

\* the registry after a handler's writes, were every session one shared object
WriteSessionShared(reg, sid, s) == [x \in DOMAIN reg |-> s]

\* the registry after a handler has written, in place, to the session object
\* it looked up with combat_sessions[session_id]: the object of sid is now s
WriteSession(reg, sid, s) == [reg EXCEPT ![sid] = s]

NewSession(player, enemies, order, kind) ==
    [player |-> player, enemies |-> enemies, turn_order |-> order,
     status |-> ACTIVE, log |-> 1, turn_count |-> 0, ev |-> {}]

\* POST /api/combat/start
start_combat(sid, difficulty, pp, mp) ==
    /\ Idle
    /\ sid \notin DOMAIN combat_sessions
    /\ LET n == EnemyCount(difficulty)
           player == CombatEntity(0, pp.hp, pp.attack, pp.defense, pp.speed, "player", pp.skills)
           enemies == [i \in 1..n |->
                          CombatEntity(i, mp.hp, mp.attack, mp.defense, mp.speed,
                                       "enemy", mp.skills)]
           speedOf == [r \in 0..n |-> IF r = 0 THEN player.speed ELSE enemies[r].speed]
           order == SortBySpeed(n, 0, speedOf)
           s == NewSession(player, enemies, order, "start")
       IN  /\ combat_sessions' = (sid :> s) @@ combat_sessions
           /\ resp' = [NoResp EXCEPT !.req = "start", !.sid = sid, !.code = 200, !.status = ACTIVE]
    /\ UNCHANGED <<autoreq, auto_outcomes, credited, hit, strike, daily, gear, unit, skill, actions, call, registryVars, trace, inflight>>

StartCombat ==
    \E sid \in SessionIds, r \in StartRequests :
        start_combat(sid, r.difficulty, r.player, r.monster)

\* POST /api/combat/pvp/challenge: the opponent is built from a player aggregate
pvp_challenge(sid, pp, tp) ==
    /\ Idle
    /\ sid \notin DOMAIN combat_sessions
    /\ LET player == CombatEntity(0, pp.hp, pp.attack, pp.defense, pp.speed, "player", pp.skills)
           target == CombatEntity(1, tp.hp, tp.attack, tp.defense, tp.speed, "enemy", tp.skills)
           s == NewSession(player, <<target>>, <<0, 1>>, "pvp_start")
       IN  /\ combat_sessions' = (sid :> s) @@ combat_sessions
           /\ resp' = [NoResp EXCEPT !.req = "pvp", !.sid = sid, !.code = 200, !.status = ACTIVE]
    /\ UNCHANGED <<autoreq, auto_outcomes, credited, hit, strike, daily, gear, unit, skill, actions, call, registryVars, trace, inflight>>

PvpChallenge ==
    \E sid \in SessionIds, r \in PvpRequests : pvp_challenge(sid, r[1], r[2])

\* what a request leaves and returns; ev is what it did
Out(s, code, error, credit) ==
    [s |-> Quiet(s), code |-> code, error |-> error, credit |-> credit, ev |-> s.ev]

\* execute_action from "check_combat_end" (line 689) to the return
AfterActionUnchecked(s) ==
    LET ended == {check_combat_end(s2) : s2 \in process_enemy_turn(Acted(s, 0, "player"))}
    IN  {LET s3 == [s2 EXCEPT !.turn_count = @ + 1]
         IN  IF s3.status = VICTORY
             THEN Out(Log(s3, "victory", 0), 200, "", TRUE)
             ELSE Out(s3, 200, "", FALSE)
         : s2 \in ended}
AfterAction(s) ==
    LET s1 == check_combat_end(Acted(s, 0, "player"))
        ended == IF s1.status = ACTIVE
                 THEN {check_combat_end(s2) : s2 \in process_enemy_turn(s1)}
                 ELSE {s1}
    IN  {LET s3 == [s2 EXCEPT !.turn_count = @ + 1]
         IN  IF s3.status = VICTORY
             THEN Out(Log(s3, "victory", 0), 200, "", TRUE)
             ELSE Out(s3, 200, "", FALSE)
         : s2 \in ended}

\* target_id 0 stands for None, an id beyond the enemy list for an unknown id
ResolveTarget(s, target_id) ==
    IF target_id = 0
    THEN IF AliveEnemies(s) = {} THEN -1 ELSE FirstAlive(s)
    ELSE IF target_id \in 1..Len(s.enemies) THEN target_id ELSE -2

\* "if combat_session.status != CombatStatus.ACTIVE.value" of both handlers
SessionOverSkipped(s) == FALSE
SessionOver(s) == s.status # ACTIVE

\* draws of random.random() in the flee branch, in percent
FleeRolls == {54, 55, 99}

\* random.random() < 0.5 + (player.speed / 200)
flee_succeeds(speed, roll) == 2 * roll < 100 + speed

\* the player's own move of a valid attack, skill, defend or item request
\* (target t resolved), before "check_combat_end": the sessions it can leave
PlayerMove(s1, action_type, t, skill_id, heal_amount) ==
    CASE action_type = "attack" ->
            {Log(HitEvent([s1 EXCEPT !.enemies[t].hp = Max(0, @ - d)],
                          s1.player, 0, s1.enemies[t], t, 10, d), "attack", 0) :
                d \in DamageDraws(s1.player, s1.enemies[t], 10)}
      [] action_type = "skill" -> execute_skill(s1, 0, t, skill_id)
      [] action_type = "defend" -> {Log([s1 EXCEPT !.player.is_defending = TRUE], "defend", 0)}
      [] action_type = "item" ->
            LET actual_heal == Min(heal_amount, s1.player.max_hp - s1.player.hp)
            IN  {Log([s1 EXCEPT !.player.hp = @ + actual_heal], "item", 0)}
      [] OTHER -> {s1}

\* execute_action from the reset of the player's stance to the response
ActionBody(s0, action_type, target_id, skill_id, heal_amount) ==
    LET s1 == [s0 EXCEPT !.player.is_defending = FALSE]
        t == ResolveTarget(s1, target_id)
        moved == UNION {AfterAction(s2) :
                           s2 \in PlayerMove(s1, action_type, t, skill_id, heal_amount)}
    IN  CASE action_type = "attack" ->
                IF t = -1 THEN {Out(s1, 400, "no_target", FALSE)}
                ELSE IF t = -2 \/ s1.enemies[t].hp <= 0 THEN {Out(s1, 400, "bad_target", FALSE)}
                ELSE moved
          [] action_type = "skill" ->
                IF skill_id = "" THEN {Out(s1, 400, "no_skill", FALSE)}
                ELSE IF \A k \in 1..Len(s1.player.skills) : s1.player.skills[k] # skill_id
                THEN {Out(s1, 400, "not_learned", FALSE)}
                ELSE IF t = -1 THEN {Out(s1, 400, "no_target", FALSE)}
                ELSE IF t = -2 THEN {Out(s1, 400, "bad_target", FALSE)}
                ELSE moved
          [] action_type = "flee" ->
                UNION {LET s2 == Note(s1, [NoEvent EXCEPT !.kind = "flee", !.by = 0, !.roll = roll,
                                                           !.speed = s1.player.speed])
                       IN  IF flee_succeeds(s1.player.speed, roll)
                           THEN {Out(Log([s2 EXCEPT !.status = FLED], "flee_ok", 0), 200, "", FALSE)}
                           ELSE AfterAction(Log(s2, "flee_fail", 0))
                       : roll \in FleeRolls}
          [] OTHER -> moved

\* the session and response execute_action can produce for one request
ActionOutcomes(s0, action_type, target_id, skill_id, heal_amount) ==
    IF SessionOver(s0) THEN {Out(s0, 400, "combat_ended", FALSE)}
    ELSE IF s0.player.hp <= 0 THEN {Out(s0, 400, "player_dead", FALSE)}
    ELSE ActionBody(s0, action_type, target_id, skill_id, heal_amount)

TargetIds == 0..2
SkillIds == {"", "dushujingtong", "huichunshu", "neigongxinfa"}

Req(action_type, target_id, skill_id, heal_amount) ==
    [action_type |-> action_type, target_id |-> target_id, skill_id |-> skill_id,
     heal_amount |-> heal_amount]

\* request bodies; fields an action type does not read are left at their defaults
ActionRequests ==
    {Req("attack", t, "", 50) : t \in TargetIds}
    \cup {Req("skill", t, k, 50) : t \in TargetIds, k \in SkillIds}
    \cup {Req(a, 0, "", 50) : a \in {"defend", "flee", "dance"}}
    \cup {Req("item", 0, "", h) : h \in HealAmounts}

\* trace while no action request has been made; with on = FALSE nothing is kept
NoTrace ==
    [on |-> TRUE, data |-> Req("none", 0, "", 50), sid |-> "", code |-> 0, error |-> "",
     status |-> "", lines |-> 0, ev |-> {}]

\* what an action request did, as kept in trace; lines is the number of log
\* lines it appended
Traced(data, sid, code, error, status, lines, ev) ==
    IF trace.on
    THEN [on |-> TRUE, data |-> data, sid |-> sid, code |-> code, error |-> error,
          status |-> status, lines |-> lines, ev |-> ev]
    ELSE trace

\* POST /api/combat/<session_id>/action.  The request comes with the login
\* start_combat demanded (lines 513-516) and the player's record exists, so
\* the reward of lines 710-716 is saved whenever the branch is reached
execute_action(sid, data) ==
    /\ Idle
    /\ IF sid \notin DOMAIN combat_sessions
       THEN /\ resp' = [NoResp EXCEPT !.req = "action", !.sid = sid, !.code = 404, !.error = "no_session"]
            /\ trace' = Traced(data, sid, 404, "no_session", "", 0, {})
            /\ UNCHANGED <<combat_sessions, credited>>
       ELSE LET s0 == combat_sessions[sid] IN
            /\ s0.status = ACTIVE => s0.turn_count < MaxTurnCount
            /\ \E o \in ActionOutcomes(s0, data.action_type, data.target_id,
                                       data.skill_id, data.heal_amount) :
                  /\ combat_sessions' = WriteSession(combat_sessions, sid, o.s)
                  /\ credited' = IF o.credit THEN credited + 1 ELSE credited
                  /\ resp' = [NoResp EXCEPT !.req = "action", !.sid = sid, !.code = o.code,
                                             !.error = o.error, !.status = o.s.status,
                                             !.turns = o.s.turn_count]
                  /\ trace' = Traced(data, sid, o.code, o.error, o.s.status,
                                      o.s.log - s0.log, o.ev)
    /\ UNCHANGED <<autoreq, auto_outcomes, hit, strike, daily, gear, unit, skill, actions, call, registryVars, inflight>>

ExecuteAction ==
    \E sid \in SessionIds, data \in ActionRequests : execute_action(sid, data)

\* POST /api/combat/<session_id>/auto, up to the for loop
auto_combat(sid, max_turns) ==
    /\ Idle
    /\ IF sid \notin DOMAIN combat_sessions
       THEN /\ resp' = [NoResp EXCEPT !.req = "auto", !.sid = sid, !.code = 404, !.error = "no_session"]
            /\ UNCHANGED autoreq
       ELSE LET s0 == combat_sessions[sid] IN
            IF SessionOver(s0)
            THEN /\ resp' = [NoResp EXCEPT !.req = "auto", !.sid = sid, !.code = 400,
                                            !.error = "combat_ended", !.status = s0.status,
                                            !.turns = s0.turn_count]
                 /\ UNCHANGED autoreq
            ELSE /\ s0.turn_count + max_turns <= MaxTurnCount
                 /\ autoreq' = [active |-> TRUE, sid |-> sid, turn |-> 0,
                                max_turns |-> max_turns, done |-> FALSE]
                 /\ UNCHANGED resp
    /\ UNCHANGED <<combat_sessions, auto_outcomes, credited, hit, strike, daily, gear, unit, skill, actions, call, registryVars, trace, inflight>>

AutoCombat ==
    \E sid \in SessionIds, max_turns \in 0..MaxAutoTurns : auto_combat(sid, max_turns)

\* the player's automatic move of one loop iteration (lines 755-764)
AutoPlayerMove(s) ==
    LET player == s.player
        target == FirstAlive(s)
        byAttack == {[s EXCEPT !.enemies[target].hp = Max(0, @ - d)] :
                        d \in DamageDraws(player, s.enemies[target], 10)}
        bySkill == IF Len(player.skills) > 0 /\ player.hp * 10 > player.max_hp * 3
                   THEN UNION {execute_skill(s, 0, target, player.skills[k]) :
                                  k \in 1..Len(player.skills)}
                   ELSE {}
    IN  byAttack \cup bySkill

\* one iteration of "for turn in range(max_turns)"; brk is a break
AutoIteration(s) ==
    IF s.status # ACTIVE THEN {[s |-> s, brk |-> TRUE]}
    ELSE IF AliveEnemies(s) = {} THEN {[s |-> s, brk |-> TRUE]}
    ELSE UNION {LET s2 == check_combat_end(s1)
                IN  IF s2.status # ACTIVE THEN {[s |-> Quiet(s2), brk |-> TRUE]}
                    ELSE {[s |-> Quiet([s3 EXCEPT !.turn_count = @ + 1]), brk |-> FALSE] :
                             s3 \in process_enemy_turn(s2)}
                : s1 \in AutoPlayerMove(s)}

\* "for turn in range(max_turns)": another iteration is due
WhileCondUnbounded(a) == TRUE
WhileCond(a) == a.turn < a.max_turns

AutoRound ==
    /\ autoreq.active
    /\ ~autoreq.done
    /\ WhileCond(autoreq)
    /\ \E o \in AutoIteration(combat_sessions[autoreq.sid]) :
          /\ combat_sessions' = WriteSession(combat_sessions, autoreq.sid, o.s)
          /\ autoreq' = IF o.brk THEN [autoreq EXCEPT !.done = TRUE]
                        ELSE [autoreq EXCEPT !.turn = @ + 1]
    /\ UNCHANGED <<resp, auto_outcomes, credited, hit, strike, daily, gear, unit, skill, actions, call, registryVars, trace, inflight>>

\* auto_combat after the loop: the result (lines 774-803)
AutoReturn ==
    /\ autoreq.active
    /\ autoreq.done \/ ~WhileCond(autoreq)
    /\ LET s == combat_sessions[autoreq.sid]
           final_status == s.status
       IN  /\ credited' = IF final_status = VICTORY THEN credited + 1 ELSE credited
           /\ resp' = [NoResp EXCEPT !.req = "auto", !.sid = autoreq.sid, !.code = 200,
                                      !.status = final_status, !.turns = s.turn_count,
                                      !.cap_reached = ~autoreq.done]
           /\ auto_outcomes' = IF autoreq.done
                               THEN [auto_outcomes EXCEPT !.nocap = @ \cup {final_status}]
                               ELSE [auto_outcomes EXCEPT !.cap = @ \cup {final_status}]
    /\ autoreq' = NoAuto
    /\ UNCHANGED <<combat_sessions, hit, strike, daily, gear, unit, skill, actions, call, registryVars, trace, inflight>>

SessionInit ==
    /\ combat_sessions = <<>>
    /\ autoreq = NoAuto
    /\ resp = NoResp
    /\ auto_outcomes = [cap |-> {}, nocap |-> {}]
    /\ credited = 0

\* the parts of the program a specification does not exercise
StrikeOff == strike = 0
DailyOff == daily = 0
GearOff == gear = 0
DamageOff == hit = 0 /\ StrikeOff /\ DailyOff /\ GearOff
SkillOff == unit = 0 /\ skill = 0 /\ actions = 0 /\ call = 0
RegistryOff == SKILL_REGISTRY = 0 /\ heap = 0 /\ regcall = 0
TraceOff == trace = [NoTrace EXCEPT !.on = FALSE]
ConcurrentOff == inflight = 0

Init ==
    /\ SessionInit
    /\ DamageOff
    /\ SkillOff
    /\ RegistryOff
    /\ TraceOff
    /\ ConcurrentOff

Next ==
    \/ StartCombat
    \/ PvpChallenge
    \/ ExecuteAction
    \/ AutoCombat
    \/ AutoRound
    \/ AutoReturn

Spec == Init /\ [][Next]_vars

(***************************************************************************)
(* Part I, traced - the same handlers, with what each action request did   *)
(* kept in trace                                                           *)
(***************************************************************************)
\* start requests of the traced sessions with one enemy
TurnStartRequests ==
    {[difficulty |-> "easy", player |-> P1, monster |-> M1],
     [difficulty |-> "easy", player |-> P2, monster |-> M1]}

StartTurnCombat ==
    \E sid \in SessionIds, r \in TurnStartRequests :
        start_combat(sid, r.difficulty, r.player, r.monster)

\* request bodies of the traced sessions
TurnRequests ==
    {Req("attack", t, "", 50) : t \in {1, 2}}
    \cup {Req("skill", t, "huichunshu", 50) : t \in {0, 1}}
    \cup {Req("skill", 0, k, 50) : k \in {"", "neigongxinfa"}}
    \cup {Req(a, 0, "", 50) : a \in {"defend", "flee"}}

TurnAction ==
    \E sid \in SessionIds, data \in TurnRequests : execute_action(sid, data)

TurnInit ==
    /\ SessionInit
    /\ DamageOff
    /\ SkillOff
    /\ RegistryOff
    /\ ConcurrentOff
    /\ trace = NoTrace

TurnNext ==
    \/ StartTurnCombat
    \/ TurnAction
    \/ AutoCombat
    \/ AutoRound
    \/ AutoReturn

SpecTurn == TurnInit /\ [][TurnNext]_vars

\* the traced session with two enemies ("normal" difficulty)
StartPairCombat == \E sid \in SessionIds : start_combat(sid, "normal", P1, M1)

PairRequests ==
    {Req("attack", 1, "", 50), Req("skill", 1, "huichunshu", 50),
     Req("skill", 1, "dushujingtong", 50), Req("skill", 3, "dushujingtong", 50),
     Req("defend", 0, "", 50)}

PairAction ==
    \E sid \in SessionIds, data \in PairRequests : execute_action(sid, data)

PairNext ==
    \/ StartPairCombat
    \/ PairAction

SpecPair == TurnInit /\ [][PairNext]_vars

\* the traced session whose two sides keep applying timed statuses: the
\* player slows (2 turns) and poisons (3 turns), the monster burns (3 turns)
\* and stuns (1 turn)
P3 == [hp |-> 9, attack |-> 3, defense |-> 0, speed |-> 10,
       skills |-> <<"bingfengshu", "dushujingtong">>]
M3 == [hp |-> 12, attack |-> 2, defense |-> 0, speed |-> 5,
       skills |-> <<"ranshao", "dongjie">>]

StartStatusCombat == \E sid \in SessionIds : start_combat(sid, "easy", P3, M3)

StatusRequests ==
    {Req("skill", 1, "bingfengshu", 50), Req("skill", 1, "dushujingtong", 50),
     Req("defend", 0, "", 50)}

StatusAction ==
    \E sid \in SessionIds, data \in StatusRequests : execute_action(sid, data)

StatusNext ==
    \/ StartStatusCombat
    \/ StatusAction

SpecStatus == TurnInit /\ [][StatusNext]_vars

\* the traced sessions, with one enemy and with two, whose player stuns
\* (1 turn) and poisons (3 turns) and can be brought down within one phase
P4 == [hp |-> 5, attack |-> 6, defense |-> 0, speed |-> 10,
       skills |-> <<"dongjie", "dushujingtong">>]
M4 == [hp |-> 10, attack |-> 3, defense |-> 0, speed |-> 5,
       skills |-> <<"siyao">>]

StartStunCombat ==
    \E sid \in SessionIds, difficulty \in {"easy", "normal"} :
        start_combat(sid, difficulty, P4, M4)

StunRequests ==
    {Req("skill", t, "dongjie", 50) : t \in {1, 2}}
    \cup {Req("skill", 0, "dushujingtong", 50), Req("attack", 0, "", 50),
          Req("defend", 0, "", 50)}

StunAction ==
    \E sid \in SessionIds, data \in StunRequests : execute_action(sid, data)

StunNext ==
    \/ StartStunCombat
    \/ StunAction

SpecStun == TurnInit /\ [][StunNext]_vars

(***************************************************************************)
(* Part I, concurrent - two action requests on one session.  app.run       *)
(* serves every request on a thread of its own and combat_sessions has no  *)
(* lock, so a request can pass the entry checks of execute_action while    *)
(* another is between its own checks and its writes.  Each request is two  *)
(* steps here: the checks, then the rest of the handler.                   *)
(***************************************************************************)
\* no request in flight.  base and credited are the session and the rewards
\* before the first request entered, entered the request bodies in order of
\* entry, pending the ones that have not answered yet
NoFlight == [sid |-> "", base |-> <<>>, credited |-> 0, entered |-> <<>>, pending |-> {}]

ConcRequests ==
    {Req("attack", 1, "", 50), Req("skill", 0, "huichunshu", 50), Req("defend", 0, "", 50)}

\* execute_action up to "if player.hp <= 0", for a request that passes
EnterAction(sid, data) ==
    /\ sid \in DOMAIN combat_sessions
    /\ Len(inflight.entered) < 2
    /\ inflight.entered # <<>> => inflight.sid = sid
    /\ LET s0 == combat_sessions[sid] IN
        /\ ~SessionOver(s0)
        /\ s0.player.hp > 0
        /\ s0.turn_count + Cardinality(inflight.pending) < MaxTurnCount
        /\ inflight' = IF inflight.entered = <<>>
                       THEN [sid |-> sid, base |-> s0, credited |-> credited,
                             entered |-> <<data>>, pending |-> {1}]
                       ELSE [inflight EXCEPT !.entered = Append(@, data), !.pending = @ \cup {2}]
    /\ UNCHANGED <<combat_sessions, autoreq, resp, auto_outcomes, credited, hit, strike, daily, gear, unit, skill, actions, call, registryVars, trace>>

\* the rest of execute_action for the k-th request in flight
FinishAction(k) ==
    /\ k \in inflight.pending
    /\ LET sid == inflight.sid
           s0 == combat_sessions[sid]
           data == inflight.entered[k]
       IN  \E o \in ActionBody(s0, data.action_type, data.target_id, data.skill_id, data.heal_amount) :
              /\ combat_sessions' = WriteSession(combat_sessions, sid, o.s)
              /\ credited' = IF o.credit THEN credited + 1 ELSE credited
              /\ resp' = [NoResp EXCEPT !.req = "action", !.sid = sid, !.code = o.code,
                                         !.error = o.error, !.status = o.s.status,
                                         !.turns = o.s.turn_count]
    /\ inflight' = [inflight EXCEPT !.pending = @ \ {k}]
    /\ UNCHANGED <<autoreq, auto_outcomes, hit, strike, daily, gear, unit, skill, actions, call, registryVars, trace>>

\* every request in flight has answered
Settle ==
    /\ inflight.entered # <<>>
    /\ inflight.pending = {}
    /\ inflight' = NoFlight
    /\ UNCHANGED <<combat_sessions, autoreq, resp, auto_outcomes, credited, hit, strike, daily, gear, unit, skill, actions, call, registryVars, trace>>

StartConcCombat ==
    /\ inflight = NoFlight
    /\ \E sid \in SessionIds : start_combat(sid, "easy", P1, M1)

\* a request that is served alone
AloneAction ==
    /\ inflight = NoFlight
    /\ \E sid \in SessionIds, data \in ConcRequests : execute_action(sid, data)

ConcInit ==
    /\ SessionInit
    /\ DamageOff
    /\ SkillOff
    /\ RegistryOff
    /\ TraceOff
    /\ inflight = NoFlight

ConcNext ==
    \/ StartConcCombat
    \/ AloneAction
    \/ \E sid \in SessionIds, data \in ConcRequests : EnterAction(sid, data)
    \/ \E k \in {1, 2} : FinishAction(k)
    \/ Settle

SpecConc == ConcInit /\ [][ConcNext]_vars

(***************************************************************************)
(* Part I, two sessions - requests addressed to different sessions of the  *)
(* registry                                                                *)
(***************************************************************************)
TwoSessionIds == {"s1", "s2"}

\* request bodies the order of service is examined for
TwoRequests == {Req("attack", 1, "", 50), Req("defend", 0, "", 50)}

StartTwoCombat == \E sid \in TwoSessionIds : start_combat(sid, "easy", P1, M1)

\* action requests go to one session, auto requests to the other
TwoAction == execute_action("s1", Req("attack", 1, "", 50))

TwoAuto == auto_combat("s2", 1)

TwoNext ==
    \/ StartTwoCombat
    \/ TwoAction
    \/ TwoAuto
    \/ AutoRound
    \/ AutoReturn

SpecTwo == Init /\ [][TwoNext]_vars

(***************************************************************************)
(* Part I, served for ever - the registry under a server that keeps        *)
(* answering: every kind of request that is waiting is served in the end   *)
(***************************************************************************)
\* GET /api/combat/<session_id>
get_combat_status(sid) ==
    /\ Idle
    /\ resp' = IF sid \notin DOMAIN combat_sessions
               THEN [NoResp EXCEPT !.req = "status", !.sid = sid, !.code = 404, !.error = "no_session"]
               ELSE [NoResp EXCEPT !.req = "status", !.sid = sid, !.code = 200,
                                   !.status = combat_sessions[sid].status,
                                   !.turns = combat_sessions[sid].turn_count]
    /\ UNCHANGED <<combat_sessions, autoreq, auto_outcomes, credited, hit, strike, daily, gear, unit, skill, actions, call, registryVars, trace, inflight>>

GetCombatStatus == \E sid \in SessionIds : get_combat_status(sid)

\* GET /api/combat/sessions: every session of the registry is listed,
\* whatever its status
list_sessions ==
    /\ Idle
    /\ resp' = [NoResp EXCEPT !.req = "sessions", !.code = 200,
                              !.turns = Cardinality(DOMAIN combat_sessions)]
    /\ UNCHANGED <<combat_sessions, autoreq, auto_outcomes, credited, hit, strike, daily, gear, unit, skill, actions, call, registryVars, trace, inflight>>

LiveRequests == {Req("attack", 1, "", 50), Req("item", 0, "", 1), Req("flee", 0, "", 50)}

StartLiveCombat == \E sid \in SessionIds, p \in {P1, P2} : start_combat(sid, "easy", p, M1)

LiveAction == \E sid \in SessionIds, data \in LiveRequests : execute_action(sid, data)

LiveNext ==
    \/ StartLiveCombat
    \/ LiveAction
    \/ GetCombatStatus
    \/ list_sessions

SpecLive ==
    /\ Init
    /\ [][LiveNext]_vars
    /\ WF_vars(LiveAction)
    /\ WF_vars(GetCombatStatus)
    /\ WF_vars(list_sessions)

(***************************************************************************)
(* Part I, replayed - two sessions built by the same PvP challenge and     *)
(* given the same requests with the same random draws.  Every draw of a    *)
(* request is an input here: the handlers are the ones above with their    *)
(* draws named.                                                            *)
(***************************************************************************)
\* list(set(skills)): the distinct skills in the order the set iterates them,
\* which the language leaves open and which follows the string hash seed the
\* process was started with
ListOfSet(skills) ==
    LET elems == {skills[k] : k \in 1..Len(skills)}
    IN  {q \in [1..Cardinality(elems) -> elems] : \A i, j \in 1..Cardinality(elems) : q[i] = q[j] => i = j}

\* create_player_entity(player_data): the entities it can return
create_player_entity(id, pp, etype) ==
    {CombatEntity(id, pp.hp, pp.attack, pp.defense, pp.speed, etype, order) :
        order \in ListOfSet(pp.skills)}

\* the draws of one action request: pcrit, pvar for the player's hit, roll for
\* the flee, and for the enemy act (action_roll), skill (the roll below 0.4),
\* pick (the index random.choice takes), crit and var
Draws ==
    [pcrit : BOOLEAN, pvar : Variances, roll : {54, 99},
     act : {"attack", "defend", "wait"}, skill : BOOLEAN, pick : 1..2,
     crit : BOOLEAN, var : Variances]

\* random.choice(seq) for the draw pick
Choice(seq, pick) == seq[((pick - 1) % Len(seq)) + 1]

RECURSIVE SkillHitsDrawn(_, _, _, _, _, _)
SkillHitsDrawn(s, a, targets, eff, k, d) ==
    IF k > Len(targets) THEN s
    ELSE LET t == targets[k] IN
         IF Ent(s, t).hp <= 0 THEN SkillHitsDrawn(s, a, targets, eff, k + 1, d)
         ELSE SkillHitsDrawn(SkillHit(s, a, t, eff, calculate_damage(Ent(s, a), Ent(s, t), eff.multiplier, d.crit, d.var)),
                             a, targets, eff, k + 1, d)

\* execute_skill with the draws of its hits named; the heal and buff branches
\* draw nothing
execute_skill_drawn(s, a, t, name, d) ==
    LET eff == SkillEffectOf(name)
        att == Ent(s, a)
    IN  IF eff.damage_type \in {"heal", "buff"}
        THEN CHOOSE s2 \in execute_skill(s, a, t, name) : TRUE
        ELSE LET targets == IF eff.aoe
                            THEN IF att.entity_type = "player" THEN AliveSeq(s, 1)
                                 ELSE IF s.player.hp > 0 THEN <<0>> ELSE <<>>
                            ELSE <<t>>
             IN  Log(SkillHitsDrawn(s, a, targets, eff, 1, d), "skill_damage", a)

\* the AI decision of one enemy for the draws d
EnemyActDrawn(s, i, d) ==
    LET enemy == s.enemies[i]
        stunned == \E k \in 1..Len(enemy.buffs) : enemy.buffs[k].type = "stun"
        damage == calculate_damage(enemy, s.player, 10, d.crit, d.var)
    IN  IF enemy.hp <= 0 THEN s
        ELSE IF stunned THEN Log(s, "stunned", i)
        ELSE IF d.act = "attack" /\ s.player.hp > 0
        THEN IF Len(enemy.skills) > 0 /\ d.skill
             THEN execute_skill_drawn(s, i, 0, Choice(enemy.skills, d.pick), d)
             ELSE Log([s EXCEPT !.player.hp = Max(0, @ - damage)], "attack", i)
        ELSE IF d.act \in {"attack", "defend"}
        THEN Log([s EXCEPT !.enemies[i].is_defending = TRUE], "defend", i)
        ELSE Log(s, "wait", i)

RECURSIVE EnemyLoopDrawn(_, _, _)
EnemyLoopDrawn(s, i, d) ==
    IF i > Len(s.enemies) THEN s
    ELSE EnemyLoopDrawn(EnemyActDrawn(s, i, d), i + 1, d)

\* execute_action from "check_combat_end" (line 689) on
AfterActionDrawn(s, d) ==
    LET s1 == check_combat_end(s)
        s2 == IF s1.status = ACTIVE
              THEN check_combat_end(TickAll(EnemyLoopDrawn(s1, 1, d)))
              ELSE s1
        s3 == [s2 EXCEPT !.turn_count = @ + 1]
    IN  Quiet(IF s3.status = VICTORY THEN Log(s3, "victory", 0) ELSE s3)

\* the session execute_action leaves for the request data and the draws d
ActionDrawn(s0, data, d) ==
    IF SessionOver(s0) \/ s0.player.hp <= 0 THEN s0
    ELSE
    LET s1 == [s0 EXCEPT !.player.is_defending = FALSE]
        t == ResolveTarget(s1, data.target_id)
    IN  CASE data.action_type = "attack" ->
                IF t < 0 THEN s1
                ELSE IF s1.enemies[t].hp <= 0 THEN s1
                ELSE LET damage == calculate_damage(s1.player, s1.enemies[t], 10, d.pcrit, d.pvar)
                     IN  AfterActionDrawn(Log([s1 EXCEPT !.enemies[t].hp = Max(0, @ - damage)], "attack", 0), d)
          [] data.action_type = "defend" ->
                AfterActionDrawn(Log([s1 EXCEPT !.player.is_defending = TRUE], "defend", 0), d)
          [] data.action_type = "flee" ->
                IF flee_succeeds(s1.player.speed, d.roll)
                THEN Log([s1 EXCEPT !.status = FLED], "flee_ok", 0)
                ELSE AfterActionDrawn(Log(s1, "flee_fail", 0), d)
          [] OTHER -> AfterActionDrawn(s1, d)

TwinRequests == {Req("attack", 1, "", 50), Req("defend", 0, "", 50), Req("flee", 0, "", 50)}

\* the same PvP challenge served twice, as "s1" and as "s2"
TwinChallenge ==
    /\ combat_sessions = <<>>
    /\ \E r \in PvpRequests :
          \E p1, p2 \in create_player_entity(0, r[1], "player"), t1, t2 \in create_player_entity(1, r[2], "enemy") :
             /\ combat_sessions' = ("s1" :> NewSession(p1, <<t1>>, <<0, 1>>, "pvp_start"))
                                    @@ ("s2" :> NewSession(p2, <<t2>>, <<0, 1>>, "pvp_start"))
             /\ resp' = [NoResp EXCEPT !.req = "pvp", !.code = 200, !.status = ACTIVE]
    /\ UNCHANGED <<autoreq, auto_outcomes, credited, hit, strike, daily, gear, unit, skill, actions, call, registryVars, trace, inflight>>

\* the same action request with the same draws served on both
TwinAction ==
    /\ DOMAIN combat_sessions = {"s1", "s2"}
    /\ \A sid \in {"s1", "s2"} : combat_sessions[sid].turn_count < MaxTurnCount
    /\ \E data \in TwinRequests, d \in Draws :
          /\ combat_sessions' = [sid \in {"s1", "s2"} |-> ActionDrawn(combat_sessions[sid], data, d)]
          /\ resp' = [NoResp EXCEPT !.req = "action", !.code = 200,
                                    !.status = combat_sessions'["s1"].status,
                                    !.turns = combat_sessions'["s1"].turn_count]
    /\ UNCHANGED <<autoreq, auto_outcomes, credited, hit, strike, daily, gear, unit, skill, actions, call, registryVars, trace, inflight>>

TwinNext ==
    \/ TwinChallenge
    \/ TwinAction

SpecTwin == Init /\ [][TwinNext]_vars

(***************************************************************************)
(* Part I, plain attack - calculate_damage called on two entities built    *)
(* from stored players of given sects                                      *)
(***************************************************************************)
\* player_data.get("sect"): "" is a player without a sect
Sects == {"", "QINGYUN", "WANHUA", "SHUSHAN"}

\* SECT_ADVANTAGES.get((attacker, defender), 1.0) of models/player.py, in
\* hundredths, on the sects explored
get_sect_advantage(attacker, defender) ==
    CASE attacker = "QINGYUN" /\ defender = "WANHUA" -> 125
      [] attacker = "QINGYUN" /\ defender = "SHUSHAN" -> 80
      [] attacker = "WANHUA" /\ defender = "QINGYUN" -> 80
      [] attacker = "SHUSHAN" /\ defender = "QINGYUN" -> 125
      [] OTHER -> 100

NoStrike == [pending |-> TRUE]

\* the stored players (sect and aggregate attack), the defender's stance and
\* the two draws of the call
StrikeInputs ==
    [attacker_sect : Sects, defender_sect : Sects, attack : {50, 100},
     defending : BOOLEAN, crit : BOOLEAN, var : Variances, result : {NoStrike}]

\* create_player_entity keeps the sect's skills and stat bonus, not the sect:
\* CombatEntity has no sect field
SectEntity(id, sect, attack, etype, defending) ==
    [CombatEntity(id, 100, attack, 10, 10, etype, <<>>) EXCEPT !.is_defending = defending]

\* the call returns the damage alone; named is the set of sects named by a
\* message returned with it
PlainAttack ==
    /\ strike.result = NoStrike
    /\ LET attacker == SectEntity(0, strike.attacker_sect, strike.attack, "player", FALSE)
           defender == SectEntity(1, strike.defender_sect, 50, "enemy", strike.defending)
       IN  strike' = [strike EXCEPT !.result =
                         [damage |-> calculate_damage(attacker, defender, 10,
                                                      strike.crit, strike.var),
                          named |-> {}]]
    /\ UNCHANGED <<sessionVars, hit, daily, gear, skillVars, registryVars, trace, inflight>>

StrikeInit ==
    /\ SessionInit
    /\ hit = 0
    /\ strike \in StrikeInputs
    /\ DailyOff /\ GearOff
    /\ SkillOff
    /\ RegistryOff
    /\ TraceOff
    /\ ConcurrentOff

StrikeNext == PlainAttack

SpecStrike == StrikeInit /\ [][StrikeNext]_vars

(***************************************************************************)
(* Part II - combat/damage.py                                              *)
(***************************************************************************)
Elements ==
    {"WIND", "FIRE", "WOOD", "VOID", "LIGHTNING", "ICE", "SOUND", "BLOOD",
     "PHYSICAL", "NONE"}

\* ELEMENT_COUNTERS.get(e, []): the elements e beats
ELEMENT_COUNTERS(e) ==
    CASE e = "WIND" -> {"WOOD", "SOUND"}
      [] e = "FIRE" -> {"WOOD", "ICE"}
      [] e = "WOOD" -> {"FIRE", "BLOOD"}
      [] e = "VOID" -> {"LIGHTNING", "WIND"}
      [] e = "LIGHTNING" -> {"WOOD", "SOUND"}
      [] e = "ICE" -> {"FIRE", "WIND"}
      [] e = "SOUND" -> {"VOID", "LIGHTNING"}
      [] e = "BLOOD" -> {"WOOD", "VOID"}
      [] OTHER -> {}

\* multiplier in hundredths
get_element_multiplier(attacker_element, defender_element) ==
    IF attacker_element = "NONE" \/ defender_element = "NONE" THEN 100
    ELSE IF attacker_element \in ELEMENT_COUNTERS(defender_element) THEN 150
    ELSE IF defender_element \in ELEMENT_COUNTERS(attacker_element) THEN 75
    ELSE 100

\* getattr(obj, name, default)
GetAttr(obj, name, default) == IF name \in DOMAIN obj THEN obj[name] ELSE default

DamageResult(damage, is_crit, element, damage_type, element_multiplier, dodged) ==
    [damage |-> damage, is_crit |-> is_crit, element |-> element,
     damage_type |-> damage_type, element_multiplier |-> element_multiplier,
     dodged |-> dodged]

\* DamageCalculator.calculate_damage; rates and rolls in percent,
\* scaling_multiplier in tenths, crit_damage in hundredths
DamageCalculator_calculate_damage(attacker, defender, element, damage_type, base_value, scaling_stat, scaling_multiplier, dodge_roll, crit_roll) ==
    IF dodge_roll < GetAttr(defender, "dodge_rate", 0)
    THEN DamageResult(0, FALSE, element, damage_type, 100, TRUE)
    ELSE
    LET defense_stat == IF damage_type = "PHYSICAL" THEN GetAttr(defender, "defense", 5)
                        ELSE GetAttr(defender, "magic_resist", 5)
        scaling_value == GetAttr(attacker, scaling_stat, 10)
        \* base_damage and effective_defense in tenths
        base_damage == base_value * 10 + scaling_value * scaling_multiplier
        effective_defense == defense_stat * 5
        mitigated == Max(1, Trunc(base_damage - effective_defense, 10))
        d1 == IF damage_type = "TRUE" THEN Trunc(base_damage, 10) ELSE mitigated
        defender_element == GetAttr(defender, "element", "NONE")
        element_multiplier == get_element_multiplier(element, defender_element)
        d2 == Trunc(d1 * element_multiplier, 100)
        is_crit == crit_roll < GetAttr(attacker, "crit_rate", 5)
        d3 == IF is_crit THEN Trunc(d2 * GetAttr(attacker, "crit_damage", 150), 100) ELSE d2
    IN  DamageResult(d3, is_crit, element, damage_type, element_multiplier, FALSE)

\* DamageCalculator.calculate_healing; healing_received in hundredths
calculate_healing(caster, target, base_value, scaling_stat, scaling_multiplier) ==
    LET scaling_value == GetAttr(caster, scaling_stat, 10)
        base_heal == base_value * 10 + scaling_value * scaling_multiplier
        healing_bonus == GetAttr(target, "healing_received", 100)
    IN  Max(1, Trunc(base_heal * healing_bonus, 1000))

\* random.random() draws, in percent
Rolls == {0, 50}

NoResult == [dodged |-> FALSE, pending |-> TRUE]

\* the calls explored: stat bundles, element pairing, damage type and the draws
HitInputs ==
    [attacker : [attack : {10, 50}, magic_attack : {10}, crit_rate : {5}, crit_damage : {150}],
     defender : [defense : {0, 30}, magic_resist : {5}, dodge_rate : {5}, element : Elements],
     element : Elements,
     damage_type : {"PHYSICAL", "MAGIC", "TRUE"},
     base_value : {0, 30},
     scaling_stat : {"attack"},
     scaling_multiplier : {10, 12},
     dodge_roll : Rolls,
     crit_roll : Rolls,
     result : {NoResult}]

ResolveHit ==
    /\ hit.result = NoResult
    /\ hit' = [hit EXCEPT !.result =
                  DamageCalculator_calculate_damage(hit.attacker, hit.defender, hit.element,
                      hit.damage_type, hit.base_value, hit.scaling_stat,
                      hit.scaling_multiplier, hit.dodge_roll, hit.crit_roll)]
    /\ UNCHANGED <<sessionVars, strike, daily, gear, skillVars, registryVars, trace, inflight>>

DamageInit ==
    /\ SessionInit
    /\ hit \in HitInputs
    /\ StrikeOff
    /\ DailyOff /\ GearOff
    /\ SkillOff
    /\ RegistryOff
    /\ TraceOff
    /\ ConcurrentOff

DamageNext == ResolveHit

SpecDamage == DamageInit /\ [][DamageNext]_vars

\* the heal effects explored: the caster's scaling stat, the target's hp and
\* healing_received (hundredths), value_base and value_scaling (tenths)
HealInputs ==
    [caster : [intellect : {0, 10}],
     target : [hp : {1, 5}, max_hp : {10}, healing_received : {0, 50, 100, 200}],
     base_value : {0, 1, 30},
     scaling_stat : {"intellect"},
     scaling_multiplier : {10, 15},
     result : {NoResult}]

\* the heal branch of SkillExecutor.apply_effects on one target
ResolveHeal ==
    /\ hit.result = NoResult
    /\ LET heal_value == calculate_healing(hit.caster, hit.target, hit.base_value,
                                           hit.scaling_stat, hit.scaling_multiplier)
       IN  hit' = [hit EXCEPT !.result = [heal_value |-> heal_value],
                              !.target.hp = Min(hit.target.max_hp, @ + heal_value)]
    /\ UNCHANGED <<sessionVars, strike, daily, gear, skillVars, registryVars, trace, inflight>>

HealInit ==
    /\ SessionInit
    /\ hit \in HealInputs
    /\ StrikeOff
    /\ DailyOff /\ GearOff
    /\ SkillOff
    /\ RegistryOff
    /\ TraceOff
    /\ ConcurrentOff

HealNext == ResolveHeal

SpecHeal == HealInit /\ [][HealNext]_vars

(***************************************************************************)
(* Part III - combat/skills.py                                             *)
(***************************************************************************)
\* calls are made while fewer than this many have been made
MaxCalls == 5

SkillEffect(effect_type, value_base, value_scaling, scaling_stat, element, id, duration, hit_count) ==
    [effect_type |-> effect_type, value_base |-> value_base,
     value_scaling |-> value_scaling, scaling_stat |-> scaling_stat, element |-> element,
     buff_id |-> id, debuff_id |-> id, duration |-> duration, hit_count |-> hit_count]

\* CombatSkill.__init__: current_cooldown starts at 0
CombatSkill(skill_id, target_type, mp_cost, hp_cost, cooldown, effects) ==
    [skill_id |-> skill_id, target_type |-> target_type, mp_cost |-> mp_cost,
     hp_cost |-> hp_cost, cooldown |-> cooldown, current_cooldown |-> 0,
     effects |-> effects]

\* CombatUnit; element None is the string "None"
CombatUnit(hp, mp, attack, defense) ==
    [hp |-> hp, max_hp |-> hp, mp |-> mp, max_mp |-> mp, attack |-> attack,
     defense |-> defense, magic_attack |-> attack, magic_resist |-> defense,
     intellect |-> 1, crit_rate |-> 5, crit_damage |-> 150, dodge_rate |-> 5,
     element |-> "None", buffs |-> <<>>, debuffs |-> <<>>, is_dead |-> FALSE,
     healing_received |-> 100]

\* CombatSkill.can_use
can_use_ignoring_hp(sk, caster_mp, caster_hp) ==
    ~(sk.current_cooldown > 0) /\ ~(caster_mp < sk.mp_cost)
can_use(sk, caster_mp, caster_hp) ==
    IF sk.current_cooldown > 0 THEN FALSE
    ELSE IF caster_mp < sk.mp_cost THEN FALSE
    ELSE IF caster_hp < sk.hp_cost THEN FALSE
    ELSE TRUE

\* CombatSkill.apply_cooldown
apply_cooldown(sk) == [sk EXCEPT !.current_cooldown = sk.cooldown]

\* CombatSkill.reduce_cooldown
reduce_cooldown_unguarded(sk) == [sk EXCEPT !.current_cooldown = @ - 1]
reduce_cooldown(sk) ==
    IF sk.current_cooldown > 0 THEN [sk EXCEPT !.current_cooldown = @ - 1] ELSE sk

RECURSIVE Living(_, _, _)
Living(units, ids, k) ==
    IF k > Len(ids) THEN <<>>
    ELSE IF ~units[ids[k]].is_dead THEN <<ids[k]>> \o Living(units, ids, k + 1)
    ELSE Living(units, ids, k + 1)

\* SkillExecutor._select_targets
select_targets_first_only(sk, caster, available_targets, units) ==
    LET living == Living(units, available_targets, 1) IN
    IF sk.target_type = "SELF" THEN <<caster>>
    ELSE SubSeq(living, 1, Min(1, Len(living)))
select_targets(sk, caster, available_targets, units) ==
    LET living == Living(units, available_targets, 1) IN
    CASE sk.target_type = "SELF" -> <<caster>>
      [] sk.target_type = "SINGLE_ENEMY" -> SubSeq(living, 1, Min(1, Len(living)))
      [] sk.target_type = "ALL_ENEMIES" -> living
      [] sk.target_type = "SINGLE_ALLY" ->
            IF Len(living) > 0 THEN SubSeq(living, 1, 1) ELSE <<caster>>
      [] sk.target_type = "ALL_ALLIES" -> <<caster>> \o living
      [] OTHER -> <<>>

CombatAction(action_type, caster_id, target_id, value, element, is_crit) ==
    [action_type |-> action_type, caster_id |-> caster_id, target_id |-> target_id,
     skill_id |-> "", value |-> value, element |-> element, is_crit |-> is_crit]

\* one effect of SkillExecutor.apply_effects on one target; st carries the
\* units and the running total_value / is_crit
ApplyEffect(st, effect, caster, target, dodge_roll, crit_roll) ==
    LET units == st.units
        tgt == units[target]
    IN  CASE effect.effect_type = "damage" ->
              LET damage_type == IF effect.element = "PHYSICAL" THEN "PHYSICAL" ELSE "MAGIC"
                  result == DamageCalculator_calculate_damage(units[caster], tgt,
                                IF effect.element = "None" THEN "PHYSICAL" ELSE effect.element,
                                damage_type, effect.value_base, effect.scaling_stat,
                                effect.value_scaling, dodge_roll, crit_roll)
                  total_damage == result.damage * effect.hit_count
                  hp == Max(0, tgt.hp - total_damage)
              IN  [units |-> [units EXCEPT ![target].hp = hp,
                                           ![target].is_dead = IF hp <= 0 THEN TRUE ELSE @],
                   total_value |-> st.total_value + total_damage,
                   is_crit |-> result.is_crit]
          [] effect.effect_type = "heal" ->
              LET heal_value == calculate_healing(units[caster], tgt, effect.value_base,
                                                  effect.scaling_stat, effect.value_scaling)
              IN  [units |-> [units EXCEPT ![target].hp = Min(tgt.max_hp, tgt.hp + heal_value)],
                   total_value |-> st.total_value + heal_value,
                   is_crit |-> st.is_crit]
          [] effect.effect_type = "buff" ->
              [units |-> [units EXCEPT ![target].buffs =
                             Append(@, [id |-> effect.buff_id, duration |-> effect.duration,
                                        value |-> effect.value_base])],
               total_value |-> st.total_value + effect.value_base,
               is_crit |-> st.is_crit]
          [] effect.effect_type = "debuff" ->
              [units |-> [units EXCEPT ![target].debuffs =
                             Append(@, [id |-> effect.debuff_id, duration |-> effect.duration,
                                        value |-> effect.value_base])],
               total_value |-> st.total_value + effect.value_base,
               is_crit |-> st.is_crit]
          [] OTHER -> st

RECURSIVE EffectLoop(_, _, _, _, _)
EffectLoop(st, effects, caster, target, k) ==
    IF k > Len(effects) THEN {st}
    ELSE IF effects[k].effect_type = "damage"
    THEN UNION {EffectLoop(ApplyEffect(st, effects[k], caster, target, dr, cr),
                           effects, caster, target, k + 1) : dr \in Rolls, cr \in Rolls}
    ELSE EffectLoop(ApplyEffect(st, effects[k], caster, target, 0, 0),
                    effects, caster, target, k + 1)

\* SkillExecutor.apply_effects: the units and the CombatAction it can produce
apply_effects(units, effects, caster, target) ==
    LET primary_effect_type == IF Len(effects) > 0 THEN effects[1].effect_type ELSE "damage"
        element == IF Len(effects) > 0 THEN effects[1].element ELSE "None"
    IN  {[units |-> st.units,
          action |-> CombatAction(primary_effect_type, caster, target, st.total_value,
                                  element, st.is_crit)] :
            st \in EffectLoop([units |-> units, total_value |-> 0, is_crit |-> FALSE],
                              effects, caster, target, 1)}

RECURSIVE TargetLoop(_, _, _, _, _, _)
TargetLoop(units, acts, effects, caster, targets, k) ==
    IF k > Len(targets) THEN {[units |-> units, actions |-> acts]}
    ELSE IF units[targets[k]].is_dead
    THEN TargetLoop(units, acts, effects, caster, targets, k + 1)
    ELSE UNION {TargetLoop(o.units, Append(acts, o.action), effects, caster, targets, k + 1) :
                   o \in apply_effects(units, effects, caster, targets[k])}

\* SkillExecutor.execute_skill: the units, skill and returned list it can leave
SkillExecutor_execute_skill(sk, caster, targets, units) ==
    IF ~can_use(sk, units[caster].mp, units[caster].hp)
    THEN {[units |-> units, skill |-> sk, actions |-> <<>>]}
    ELSE LET paid == [units EXCEPT ![caster].mp = @ - sk.mp_cost,
                                   ![caster].hp = @ - sk.hp_cost]
             cooled == apply_cooldown(sk)
             actual_targets == select_targets(cooled, caster, targets, paid)
         IN  {[units |-> o.units, skill |-> cooled, actions |-> o.actions] :
                 o \in TargetLoop(paid, <<>>, cooled.effects, caster, actual_targets, 1)}

\* skill instances held by the caster
SkillBook ==
    [strike |-> CombatSkill("strike", "SINGLE_ENEMY", 2, 0, 2,
                    <<SkillEffect("damage", 1, 10, "attack", "PHYSICAL", "None", 0, 1)>>),
     blood |-> CombatSkill("blood", "ALL_ENEMIES", 0, 2, 1,
                    <<SkillEffect("damage", 0, 10, "magic_attack", "FIRE", "None", 0, 1),
                      SkillEffect("debuff", 1, 0, "attack", "None", "burn", 2, 1)>>),
     mend |-> CombatSkill("mend", "SINGLE_ALLY", 1, 0, 0,
                    <<SkillEffect("heal", 1, 10, "intellect", "None", "None", 0, 1)>>)]

Caster == "caster"
Candidates == <<"t1", "t2">>

NoCall == [n |-> 0, op |-> "none", skill_id |-> "", gate |-> FALSE,
           since |-> [k \in DOMAIN SkillBook |-> -1], waited |-> -1]

\* executor.execute_skill(skill, caster, targets)
ExecuteSkill(k) ==
    /\ call.n < MaxCalls
    /\ \E o \in SkillExecutor_execute_skill(skill[k], Caster, Candidates, unit) :
          /\ unit' = o.units
          /\ skill' = [skill EXCEPT ![k] = o.skill]
          /\ actions' = o.actions
    /\ LET gate == can_use(skill[k], unit[Caster].mp, unit[Caster].hp)
       IN  call' = [call EXCEPT !.n = @ + 1, !.op = "execute_skill", !.skill_id = k,
                                !.gate = gate,
                                !.waited = call.since[k],
                                !.since[k] = IF gate THEN 0 ELSE @]
    /\ UNCHANGED <<sessionVars, damageVars, strike, daily, gear, registryVars, trace, inflight>>

\* skill.reduce_cooldown()
ReduceCooldown(k) ==
    /\ call.n < MaxCalls
    /\ skill' = [skill EXCEPT ![k] = reduce_cooldown(@)]
    /\ call' = [call EXCEPT !.n = @ + 1, !.op = "reduce_cooldown", !.skill_id = k,
                            !.gate = FALSE, !.waited = -1,
                            !.since[k] = IF @ >= 0 THEN @ + 1 ELSE @]
    /\ UNCHANGED <<unit, actions, sessionVars, damageVars, strike, daily, gear, registryVars, trace, inflight>>

SkillInit ==
    /\ SessionInit
    /\ DamageOff
    /\ RegistryOff
    /\ TraceOff
    /\ ConcurrentOff
    /\ unit \in {[caster |-> CombatUnit(4, mp, 2, 0), t1 |-> CombatUnit(3, 0, 1, 2),
                  t2 |-> CombatUnit(2, 0, 1, 0)] : mp \in {1, 4}}
    /\ skill = SkillBook
    /\ actions = <<>>
    /\ call = NoCall

SkillNext ==
    \/ \E k \in DOMAIN SkillBook : ExecuteSkill(k)
    \/ \E k \in DOMAIN SkillBook : ReduceCooldown(k)

SpecSkill == SkillInit /\ [][SkillNext]_vars

\* a book with one skill per target rule, and candidates that may be
\* perished when the first call is made
TargetBook ==
    [focus |-> CombatSkill("focus", "SELF", 1, 0, 0,
                    <<SkillEffect("buff", 1, 0, "attack", "None", "focus", 2, 1)>>),
     strike |-> CombatSkill("strike", "SINGLE_ENEMY", 1, 0, 0,
                    <<SkillEffect("damage", 1, 10, "attack", "PHYSICAL", "None", 0, 1)>>),
     blood |-> CombatSkill("blood", "ALL_ENEMIES", 0, 1, 0,
                    <<SkillEffect("damage", 0, 10, "magic_attack", "FIRE", "None", 0, 1),
                      SkillEffect("debuff", 1, 0, "attack", "None", "burn", 2, 1)>>),
     mend |-> CombatSkill("mend", "SINGLE_ALLY", 0, 0, 0,
                    <<SkillEffect("heal", 1, 10, "intellect", "None", "None", 0, 1)>>),
     rally |-> CombatSkill("rally", "ALL_ALLIES", 1, 0, 0,
                    <<SkillEffect("buff", 1, 0, "attack", "None", "rally", 2, 1)>>)]

Perished(u) == [u EXCEPT !.hp = 0, !.is_dead = TRUE]

TargetInit ==
    /\ SessionInit
    /\ DamageOff
    /\ RegistryOff
    /\ TraceOff
    /\ ConcurrentOff
    /\ unit \in {[caster |-> CombatUnit(4, 3, 2, 0),
                  t1 |-> IF d1 THEN Perished(CombatUnit(3, 0, 1, 2)) ELSE CombatUnit(3, 0, 1, 2),
                  t2 |-> IF d2 THEN Perished(CombatUnit(2, 0, 1, 0)) ELSE CombatUnit(2, 0, 1, 0)] :
                    d1 \in BOOLEAN, d2 \in BOOLEAN}
    /\ skill = TargetBook
    /\ actions = <<>>
    /\ call = [NoCall EXCEPT !.since = [k \in DOMAIN TargetBook |-> -1]]

TargetNext == \E k \in DOMAIN TargetBook : ExecuteSkill(k)

SpecTarget == TargetInit /\ [][TargetNext]_vars

(***************************************************************************)
(* Part IV - the skill registry of combat/skills.py                        *)
(*                                                                         *)
(* CombatSkill objects live on a heap and are named by reference (their    *)
(* index in heap.skills); the effects attribute of an object is a          *)
(* reference to a list in heap.lists.  Reference 0 is None.                *)
(***************************************************************************)
\* instances are handed out while fewer than this many exist
MaxInstances == 3

\* two of the skills passed to register_skill when the module is loaded
Registered ==
    <<CombatSkill("feng_xing_shu", "SELF", 15, 0, 3,
          <<SkillEffect("buff", 20, 0, "speed", "None", "speed_boost", 3, 1)>>),
      CombatSkill("yu_feng_sword_jue", "SINGLE_ENEMY", 25, 0, 2,
          <<SkillEffect("damage", 20, 8, "attack", "WIND", "None", 0, 3)>>)>>

\* CombatSkill(..., effects=effects): a new object that keeps the list it is given
Construct(h, sk, effects_ref) ==
    [h EXCEPT !.skills = Append(@, [sk EXCEPT !.effects = effects_ref])]

\* a new list object holding the elements given
NewList(h, elements) == [h EXCEPT !.lists = Append(@, elements)]

\* the object a reference names, with its effect list read through
Deref(h, a) == [h.skills[a] EXCEPT !.effects = h.lists[@]]

\* register_skill: SKILL_REGISTRY[skill.skill_id] = skill
register_skill(reg, skill_id, a) == (skill_id :> a) @@ reg

\* CombatSkill.clone: the heap it leaves and the reference it returns
clone_aliased(h, a) == [heap |-> h, ref |-> a]
clone(h, a) ==
    LET self == h.skills[a]
        h1 == NewList(h, h.lists[self.effects])
        made == CombatSkill(self.skill_id, self.target_type, self.mp_cost, self.hp_cost,
                            self.cooldown, Len(h1.lists))
        h2 == Construct(h1, [made EXCEPT !.current_cooldown = self.current_cooldown],
                        Len(h1.lists))
    IN  [heap |-> h2, ref |-> Len(h2.skills)]

\* get_skill
get_skill(reg, h, skill_id) ==
    IF skill_id \in DOMAIN reg THEN clone(h, reg[skill_id]) ELSE [heap |-> h, ref |-> 0]

SkillNames == {"feng_xing_shu", "yu_feng_sword_jue", "unknown"}

\* held: the references callers have been given
NoRegCall == [op |-> "none", src |-> 0, ref |-> 0, held |-> {}]

\* a caster able to pay for every registered skill, and two opponents
RegistryUnits ==
    [caster |-> CombatUnit(100, 50, 20, 10), t1 |-> CombatUnit(100, 50, 20, 10),
     t2 |-> CombatUnit(100, 50, 20, 10)]

\* skill = get_skill(skill_id)
GetSkill(skill_id) ==
    /\ Len(heap.skills) < Len(Registered) + MaxInstances
    /\ LET r == get_skill(SKILL_REGISTRY, heap, skill_id)
       IN  /\ heap' = r.heap
           /\ regcall' = [op |-> "get_skill",
                          src |-> IF skill_id \in DOMAIN SKILL_REGISTRY
                                  THEN SKILL_REGISTRY[skill_id] ELSE 0,
                          ref |-> r.ref,
                          held |-> IF r.ref = 0 THEN regcall.held
                                   ELSE regcall.held \cup {r.ref}]
    /\ UNCHANGED <<SKILL_REGISTRY, sessionVars, damageVars, strike, daily, gear, skillVars, trace, inflight>>

\* other = skill.clone() on an instance a caller holds
CloneInstance(a) ==
    /\ Len(heap.skills) < Len(Registered) + MaxInstances
    /\ LET r == clone(heap, a)
       IN  /\ heap' = r.heap
           /\ regcall' = [op |-> "clone", src |-> a, ref |-> r.ref,
                          held |-> regcall.held \cup {r.ref}]
    /\ UNCHANGED <<SKILL_REGISTRY, sessionVars, damageVars, strike, daily, gear, skillVars, trace, inflight>>

\* skill.apply_cooldown() on an instance a caller holds
ApplyCooldown(a) ==
    /\ heap' = [heap EXCEPT !.skills[a] = apply_cooldown(@)]
    /\ regcall' = [regcall EXCEPT !.op = "apply_cooldown", !.src = 0, !.ref = a]
    /\ UNCHANGED <<SKILL_REGISTRY, sessionVars, damageVars, strike, daily, gear, skillVars, trace, inflight>>

\* skill.reduce_cooldown() on an instance a caller holds
ReduceInstance(a) ==
    /\ heap' = [heap EXCEPT !.skills[a] = reduce_cooldown(@)]
    /\ regcall' = [regcall EXCEPT !.op = "reduce_cooldown", !.src = 0, !.ref = a]
    /\ UNCHANGED <<SKILL_REGISTRY, sessionVars, damageVars, strike, daily, gear, skillVars, trace, inflight>>

\* executor.execute_skill(skill, caster, targets) on an instance a caller holds
ExecuteInstance(a) ==
    /\ \E o \in SkillExecutor_execute_skill(Deref(heap, a), Caster, Candidates, RegistryUnits) :
          heap' = [heap EXCEPT !.skills[a] = [o.skill EXCEPT !.effects = heap.skills[a].effects],
                               !.lists[heap.skills[a].effects] = o.skill.effects]
    /\ regcall' = [regcall EXCEPT !.op = "execute_skill", !.src = 0, !.ref = a]
    /\ UNCHANGED <<SKILL_REGISTRY, sessionVars, damageVars, strike, daily, gear, skillVars, trace, inflight>>

\* the state once the module is loaded: every register_skill call has run
RegistryInit ==
    /\ SessionInit
    /\ DamageOff
    /\ SkillOff
    /\ TraceOff
    /\ ConcurrentOff
    /\ heap = [skills |-> [a \in 1..Len(Registered) |-> [Registered[a] EXCEPT !.effects = a]],
               lists |-> [a \in 1..Len(Registered) |-> Registered[a].effects]]
    /\ SKILL_REGISTRY = register_skill(register_skill(<<>>, Registered[1].skill_id, 1),
                                       Registered[2].skill_id, 2)
    /\ regcall = NoRegCall

RegistryNext ==
    \/ \E skill_id \in SkillNames : GetSkill(skill_id)
    \/ \E a \in regcall.held : CloneInstance(a)
    \/ \E a \in regcall.held : ApplyCooldown(a)
    \/ \E a \in regcall.held : ReduceInstance(a)
    \/ \E a \in regcall.held : ExecuteInstance(a)

SpecRegistry == RegistryInit /\ [][RegistryNext]_vars

(***************************************************************************)
(* Part V - progression/daily_activity.py and the streak routes of         *)
(* web/offline_routes.py.  A date is the number of its day; 0 stands for   *)
(* None.  date.isoformat() writes a date as "YYYY-MM-DD" and                *)
(* datetime.fromisoformat(...).date() reads that text back as the same     *)
(* date, so the stored text is kept as the day it denotes; last_login_date *)
(* is written by record_login only, so the unparsable branch is not taken. *)
(***************************************************************************)
\* date.today() stays below this day
MaxDay == 17

\* keys of STREAK_REWARDS and of MILESTONE_ATTR_MAP
Milestones == {7, 14, 30, 60, 100, 365, 1000}

\* STREAK_REWARDS[days]["spirit_stones"]
StreakStones(days) ==
    CASE days = 7 -> 1000
      [] days = 14 -> 2500
      [] days = 30 -> 5000
      [] days = 60 -> 10000
      [] days = 100 -> 20000
      [] days = 365 -> 100000
      [] days = 1000 -> 1000000

\* ActivityStreak(player_id): claimed[d] is the attribute milestone_<d>_claimed
ActivityStreak ==
    [current_streak |-> 0, longest_streak |-> 0, last_login_date |-> 0,
     claimed |-> [d \in Milestones |-> FALSE]]

\* record_login whose grace branch has no floor
record_login_unfloored(streak, login_date) ==
    IF streak.last_login_date = 0
    THEN [streak EXCEPT !.current_streak = 1, !.longest_streak = 1,
                        !.last_login_date = login_date]
    ELSE IF streak.last_login_date = login_date THEN streak
    ELSE LET days_since_last == login_date - streak.last_login_date
             current == IF days_since_last = 1 THEN streak.current_streak + 1
                        ELSE IF 2 <= days_since_last /\ days_since_last <= 3
                        THEN streak.current_streak - 1
                        ELSE 1
         IN  [streak EXCEPT !.current_streak = current,
                            !.longest_streak = IF current > @ THEN current ELSE @,
                            !.last_login_date = login_date]

\* DailyActivityTracker.record_login
record_login(streak, login_date) ==
    IF streak.last_login_date = 0
    THEN [streak EXCEPT !.current_streak = 1, !.longest_streak = 1,
                        !.last_login_date = login_date]
    ELSE IF streak.last_login_date = login_date THEN streak
    ELSE LET days_since_last == login_date - streak.last_login_date
             current == IF days_since_last = 1 THEN streak.current_streak + 1
                        ELSE IF 2 <= days_since_last /\ days_since_last <= 3
                        THEN Max(1, streak.current_streak - 1)
                        ELSE 1
         IN  [streak EXCEPT !.current_streak = current,
                            !.longest_streak = IF current > @ THEN current ELSE @,
                            !.last_login_date = login_date]

\* claim_streak_reward that does not look at the claimed attribute
claim_streak_reward_unchecked(streak, days) ==
    IF days \notin Milestones
    THEN [streak |-> streak, success |-> FALSE, error |-> "no_milestone", stones |-> 0]
    ELSE IF streak.current_streak < days
    THEN [streak |-> streak, success |-> FALSE, error |-> "below", stones |-> 0]
    ELSE [streak |-> [streak EXCEPT !.claimed[days] = TRUE], success |-> TRUE,
          error |-> "", stones |-> StreakStones(days)]

\* DailyActivityTracker.claim_streak_reward: the streak it leaves and its result
claim_streak_reward(streak, days) ==
    IF days \notin Milestones
    THEN [streak |-> streak, success |-> FALSE, error |-> "no_milestone", stones |-> 0]
    ELSE IF streak.current_streak < days
    THEN [streak |-> streak, success |-> FALSE, error |-> "below", stones |-> 0]
    ELSE IF streak.claimed[days]
    THEN [streak |-> streak, success |-> FALSE, error |-> "already_claimed", stones |-> 0]
    ELSE [streak |-> [streak EXCEPT !.claimed[days] = TRUE], success |-> TRUE,
          error |-> "", stones |-> StreakStones(days)]

\* the <int:days> of a claim request: no milestone, the two that can be
\* reached before MaxDay, one that cannot
ClaimDays == {5, 7, 14, 30}

NoDailyCall == [op |-> "none", days |-> 0, code |-> 0, error |-> ""]

\* the stored player (create_streak_from_player reads the streak out of it,
\* to_dict and save write it back whole), the clock, the last response, and
\* granted, a history: the days on which a claim was answered with success,
\* by milestone
DailyInit ==
    /\ SessionInit
    /\ hit = 0
    /\ StrikeOff /\ GearOff
    /\ daily = [player |-> [streak |-> ActivityStreak, spirit_stones |-> 0],
                today |-> 1,
                call |-> NoDailyCall,
                granted |-> [d \in Milestones |-> <<>>]]
    /\ SkillOff
    /\ RegistryOff
    /\ TraceOff
    /\ ConcurrentOff

dailyOthers == <<sessionVars, hit, strike, gear, skillVars, registryVars, trace, inflight>>

\* midnight
NextDay ==
    /\ daily.today < MaxDay
    /\ daily' = [daily EXCEPT !.today = @ + 1]
    /\ UNCHANGED dailyOthers

\* tracker.record_login(streak, date.today()) on the stored streak
RecordLogin ==
    /\ daily' = [daily EXCEPT !.player.streak = record_login(@, daily.today),
                              !.call = [NoDailyCall EXCEPT !.op = "record_login", !.code = 200]]
    /\ UNCHANGED dailyOthers

\* GET /api/offline/streak
get_streak ==
    /\ LET streak == daily.player.streak
           updated == IF streak.last_login_date # daily.today
                      THEN record_login(streak, daily.today)
                      ELSE streak
       IN  daily' = [daily EXCEPT !.player.streak = updated,
                                  !.call = [NoDailyCall EXCEPT !.op = "get_streak", !.code = 200]]
    /\ UNCHANGED dailyOthers

\* POST /api/offline/streak/<days>/claim
claim_streak_reward_route(days) ==
    /\ LET result == claim_streak_reward(daily.player.streak, days)
       IN  IF ~result.success
           THEN daily' = [daily EXCEPT !.call = [op |-> "claim", days |-> days, code |-> 400,
                                                 error |-> result.error]]
           ELSE daily' = [daily EXCEPT !.player.streak = result.streak,
                                       !.player.spirit_stones = @ + result.stones,
                                       !.granted[days] = Append(@, daily.today),
                                       !.call = [op |-> "claim", days |-> days, code |-> 200,
                                                 error |-> ""]]
    /\ UNCHANGED dailyOthers

ClaimStreakReward == \E days \in ClaimDays : claim_streak_reward_route(days)

DailyNext ==
    \/ NextDay
    \/ RecordLogin
    \/ get_streak
    \/ ClaimStreakReward

SpecDaily == DailyInit /\ [][DailyNext]_vars

(***************************************************************************)
(* Part VI - equipment/models.py (PlayerEquipment) and models/player.py    *)
(* (Player.equip_item / unequip_item).  None is the empty string.          *)
(***************************************************************************)
\* calls are made while fewer than this many have been made
MaxGearCalls == 4

EquipmentSlot == {"WEAPON", "ARMOR"}
EquipmentIds == {"e1", "e2", "e3"}
None == ""

\* list.remove(x): the list without its first x
RECURSIVE ListRemove(_, _)
ListRemove(list, x) ==
    IF list = <<>> THEN <<>>
    ELSE IF Head(list) = x THEN Tail(list)
    ELSE <<Head(list)>> \o ListRemove(Tail(list), x)

In(x, list) == \E k \in DOMAIN list : list[k] = x

\* PlayerEquipment.equip: the object it leaves and the id it returns
equip(pe, slot, equipment_id) ==
    LET old_equipment == pe.slots[slot]
        inv == IF In(equipment_id, pe.inventory) THEN ListRemove(pe.inventory, equipment_id)
               ELSE pe.inventory
    IN  [pe |-> [slots |-> [pe.slots EXCEPT ![slot] = equipment_id],
                 inventory |-> IF old_equipment # None /\ ~In(old_equipment, inv)
                               THEN Append(inv, old_equipment) ELSE inv],
         ret |-> old_equipment]

\* PlayerEquipment.unequip
unequip(pe, slot) ==
    LET equipment_id == pe.slots[slot]
    IN  IF equipment_id # None
        THEN [pe |-> [slots |-> [pe.slots EXCEPT ![slot] = None],
                      inventory |-> Append(pe.inventory, equipment_id)],
              ret |-> equipment_id]
        ELSE [pe |-> pe, ret |-> equipment_id]

\* Player.equip_item
equip_item(player, slot, equipment_id) ==
    LET old == player.equipment_slots[slot]
        inv == IF In(equipment_id, player.inventory)
               THEN ListRemove(player.inventory, equipment_id)
               ELSE player.inventory
    IN  [player |-> [player EXCEPT !.equipment_slots[slot] = equipment_id,
                                   !.inventory = IF old # None /\ ~In(old, inv)
                                                 THEN Append(inv, old) ELSE inv],
         ret |-> old]

\* Player.unequip_item
unequip_item(player, slot) ==
    LET equipment_id == player.equipment_slots[slot]
    IN  IF equipment_id # None
        THEN IF Len(player.inventory) < player.inventory_capacity
             THEN [player |-> [player EXCEPT !.equipment_slots[slot] = None,
                                             !.inventory = Append(@, equipment_id)],
                   ret |-> equipment_id]
             ELSE [player |-> [player EXCEPT !.equipment_slots[slot] = None], ret |-> None]
        ELSE [player |-> player, ret |-> None]

NoGearCall == [n |-> 0, op |-> "none", slot |-> "", id |-> None, ret |-> None]

\* a PlayerEquipment and a Player, each with empty slots and two ids in the
\* inventory; the Player's inventory_capacity (50 by default) is 2 or 3
GearInit ==
    /\ SessionInit
    /\ hit = 0 /\ StrikeOff /\ DailyOff
    /\ SkillOff
    /\ RegistryOff
    /\ TraceOff
    /\ ConcurrentOff
    /\ gear \in {[pe |-> [slots |-> [sl \in EquipmentSlot |-> None],
                          inventory |-> <<"e1", "e2">>],
                  player |-> [equipment_slots |-> [sl \in EquipmentSlot |-> None],
                              inventory |-> <<"e1", "e2">>,
                              inventory_capacity |-> cap],
                  call |-> NoGearCall] : cap \in {2, 3}}

gearOthers == <<sessionVars, hit, strike, daily, skillVars, registryVars, trace, inflight>>

GearCall(op, slot, id, ret) ==
    [n |-> gear.call.n + 1, op |-> op, slot |-> slot, id |-> id, ret |-> ret]

Equip ==
    /\ gear.call.n < MaxGearCalls
    /\ \E slot \in EquipmentSlot, id \in EquipmentIds :
          LET o == equip(gear.pe, slot, id)
          IN  gear' = [gear EXCEPT !.pe = o.pe, !.call = GearCall("equip", slot, id, o.ret)]
    /\ UNCHANGED gearOthers

Unequip ==
    /\ gear.call.n < MaxGearCalls
    /\ \E slot \in EquipmentSlot :
          LET o == unequip(gear.pe, slot)
          IN  gear' = [gear EXCEPT !.pe = o.pe, !.call = GearCall("unequip", slot, None, o.ret)]
    /\ UNCHANGED gearOthers

EquipItem ==
    /\ gear.call.n < MaxGearCalls
    /\ \E slot \in EquipmentSlot, id \in EquipmentIds :
          LET o == equip_item(gear.player, slot, id)
          IN  gear' = [gear EXCEPT !.player = o.player,
                                   !.call = GearCall("equip_item", slot, id, o.ret)]
    /\ UNCHANGED gearOthers

UnequipItem ==
    /\ gear.call.n < MaxGearCalls
    /\ \E slot \in EquipmentSlot :
          LET o == unequip_item(gear.player, slot)
          IN  gear' = [gear EXCEPT !.player = o.player,
                                   !.call = GearCall("unequip_item", slot, None, o.ret)]
    /\ UNCHANGED gearOthers

GearNext ==
    \/ Equip
    \/ Unequip
    \/ EquipItem
    \/ UnequipItem

SpecGear == GearInit /\ [][GearNext]_vars

(***************************************************************************)
(* Properties of the equipment slots and the inventory                     *)
(***************************************************************************)
\* how many times an id occurs in the slots and the inventory together
Occurrences(slots, inventory, id) ==
    Cardinality({sl \in DOMAIN slots : slots[sl] = id})
        + Cardinality({k \in DOMAIN inventory : inventory[k] = id})

Held(slots, inventory) ==
    {id \in EquipmentIds : Occurrences(slots, inventory, id) > 0}

\* C39: over any sequence of equip and unequip calls on a PlayerEquipment
\* every id held occurs exactly once across the slots and the inventory and
\* no held id disappears; equip leaves the id in the slot and out of the
\* inventory and puts the replaced id into the inventory, unequip empties the
\* slot and puts its id into the inventory.
EquipmentConserved ==
    /\ [] (gear.call.op \in {"none", "equip", "unequip"}
            => \A id \in Held(gear.pe.slots, gear.pe.inventory) :
                  Occurrences(gear.pe.slots, gear.pe.inventory, id) = 1)
    /\ [][gear'.call.op \in {"equip", "unequip"}
            => LET c == gear'.call
                   old == gear.pe.slots[c.slot]
                   after == gear'.pe
               IN  /\ Held(gear.pe.slots, gear.pe.inventory)
                          \subseteq Held(after.slots, after.inventory)
                   /\ c.op = "equip"
                          => /\ after.slots[c.slot] = c.id
                             /\ ~In(c.id, after.inventory)
                             /\ c.ret = old
                             /\ old \notin {None, c.id} => In(old, after.inventory)
                   /\ c.op = "unequip"
                          => /\ after.slots[c.slot] = None
                             /\ c.ret = old
                             /\ old # None => In(old, after.inventory)]_vars

\* C40: after Player.unequip_item the id that was in the slot is in the
\* inventory or still in the slot, also when the inventory was already at
\* inventory_capacity, and an inventory within inventory_capacity stays
\* within it.
UnequipItemKeepsItem ==
    [][gear'.call.op = "unequip_item"
          => LET c == gear'.call
                 old == gear.player.equipment_slots[c.slot]
                 after == gear'.player
             IN  /\ old # None
                        => \/ In(old, after.inventory)
                           \/ after.equipment_slots[c.slot] = old
                 /\ Len(gear.player.inventory) <= gear.player.inventory_capacity
                        => Len(after.inventory) <= after.inventory_capacity]_vars

(***************************************************************************)
(* Properties of the login streak                                          *)
(***************************************************************************)
\* a step that is one login, by record_login or by GET /streak
LoginStep ==
    /\ daily'.call.op \in {"record_login", "get_streak"}
    /\ daily'.today = daily.today
    /\ daily'.granted = daily.granted

\* C29: the first login sets current_streak to 1; a login one day after the
\* last raises it by 1; a login 2 or 3 days after lowers it by 1 but not
\* below 1; a login 4 or more days after resets it to 1; a login on the day
\* of the last changes nothing; and longest_streak is the largest
\* current_streak reached so far: it starts equal to current_streak and every
\* step leaves it at the larger of its old value and the new current_streak.
GraceRules ==
    /\ daily.player.streak.longest_streak >= daily.player.streak.current_streak
    /\ [][LET before == daily.player.streak
              after == daily'.player.streak
              last == before.last_login_date
              gap == daily.today - last
          IN  /\ after.longest_streak = Max(before.longest_streak, after.current_streak)
              /\ LoginStep =>
                    /\ last = 0 => after.current_streak = 1
                    /\ (last # 0 /\ gap = 1) => after.current_streak = before.current_streak + 1
                    /\ (last # 0 /\ gap \in {2, 3})
                          => /\ after.current_streak >= 1
                             /\ before.current_streak > 1
                                   => after.current_streak = before.current_streak - 1
                    /\ (last # 0 /\ gap >= 4) => after.current_streak = 1
                    /\ (last # 0 /\ gap = 0) => after = before
                    /\ after.last_login_date = daily.today]_vars

\* logins on days 1, 2 and 3 and then one on day 5, two days after the last,
\* which has just lowered the streak from 3 to 2
GraceLoginLowersStreak ==
    /\ daily.call.op \in {"record_login", "get_streak"}
    /\ daily.today = 5
    /\ daily.player.streak.last_login_date = 5
    /\ daily.player.streak.current_streak = 2
    /\ daily.player.streak.longest_streak = 3

\* a step that is one claim request
ClaimStep == daily'.call.op = "claim" /\ daily'.today = daily.today

\* C30: for each milestone a claim succeeds at most once, whatever logins
\* and claims are made, also after the streak fell and reached the milestone
\* again, and only while current_streak is at least the milestone's days; a
\* rejected claim returns an error and leaves the stored player as it was.
MilestoneClaimedOnce ==
    /\ [](\A d \in Milestones : Len(daily.granted[d]) <= 1)
    /\ [][ClaimStep =>
            /\ daily'.call.code = 200
                  => /\ daily'.call.days \in Milestones
                     /\ daily.player.streak.current_streak >= daily'.call.days
                     /\ daily.granted[daily'.call.days] = <<>>
            /\ daily'.call.code # 200
                  => /\ daily'.call.code = 400
                     /\ daily'.call.error # ""
                     /\ daily'.player = daily.player
                     /\ daily'.granted = daily.granted]_vars

\* the 7-day reward was granted on day 7, the streak has fallen since and is
\* at 7 again, and the claim for it has just been rejected
ClaimRejectedAfterReachingAgain ==
    /\ daily.granted[7] = <<7>>
    /\ daily.player.streak.current_streak = 7
    /\ daily.player.streak.longest_streak = 7
    /\ daily.player.streak.last_login_date > 7
    /\ daily.call = [op |-> "claim", days |-> 7, code |-> 400, error |-> "already_claimed"]

(***************************************************************************)
(* Properties of the combat session                                        *)
(***************************************************************************)
Entities(s) == {s.player} \cup {s.enemies[i] : i \in 1..Len(s.enemies)}
Terminal == {VICTORY, DEFEAT, FLED}
Returned(kinds) == Idle /\ resp.req \in kinds /\ resp.sid \in DOMAIN combat_sessions

\* C1: after any sequence of session requests every entity of every session
\* has 0 <= hp <= max_hp.
HpWithinBounds ==
    \A sid \in DOMAIN combat_sessions :
        \A e \in Entities(combat_sessions[sid]) : 0 <= e.hp /\ e.hp <= e.max_hp

\* C2: a session's status changes only from ACTIVE, and only to VICTORY,
\* DEFEAT or FLED; a terminal status is never changed again.
StatusOnlyLeavesActive ==
    [][\A sid \in DOMAIN combat_sessions :
          combat_sessions'[sid].status # combat_sessions[sid].status
          => /\ combat_sessions[sid].status = ACTIVE
             /\ combat_sessions'[sid].status \in Terminal]_vars

\* a terminal session has turned a further request down
TerminalSessionAsked ==
    /\ Returned({"action", "auto"})
    /\ resp.error = "combat_ended"
    /\ combat_sessions[resp.sid].status \in Terminal

\* C3: a request addressed to a session that is not ACTIVE is answered with
\* an error carrying the current status and changes no field of the session.
RejectedLeavesSession ==
    [][\A sid \in DOMAIN combat_sessions :
          (Idle /\ combat_sessions[sid].status # ACTIVE)
          => /\ combat_sessions'[sid] = combat_sessions[sid]
             /\ credited' = credited
             /\ autoreq' = autoreq
             /\ resp' # resp => /\ resp'.code = 400
                                /\ resp'.error = "combat_ended"
                                /\ resp'.status = combat_sessions[sid].status]_vars

\* an auto-resolve request was turned down by a session that has fled
FledSessionRejectsAuto ==
    /\ Returned({"auto"})
    /\ resp.code = 400
    /\ resp.status = FLED
    /\ combat_sessions[resp.sid].status = FLED

\* C4: whenever an action or auto-resolve request returns with the session
\* still ACTIVE, the player and at least one enemy have hp > 0.
ActiveMeansBothSidesAlive ==
    (Returned({"action", "auto"}) /\ resp.code = 200 /\ resp.status = ACTIVE)
    => LET s == combat_sessions[resp.sid]
       IN  s.player.hp > 0 /\ \E i \in 1..Len(s.enemies) : s.enemies[i].hp > 0

\* C5: an auto-resolve request runs at most max_turns rounds: each step of a
\* request in flight either completes one more round, within max_turns, or
\* leaves the loop, or returns.
AutoResolveBounded ==
    [][autoreq.active
       => \/ ~autoreq'.active
          \/ /\ autoreq'.turn <= autoreq.max_turns
             /\ autoreq'.max_turns = autoreq.max_turns
             /\ \/ autoreq'.turn = autoreq.turn + 1 /\ ~autoreq'.done
                \/ autoreq'.turn = autoreq.turn /\ autoreq'.done /\ ~autoreq.done]_vars

\* the loop has used up a positive round cap with the session still ACTIVE
CapUsedUp ==
    /\ autoreq.active
    /\ ~autoreq.done
    /\ autoreq.max_turns > 0
    /\ autoreq.turn = autoreq.max_turns
    /\ combat_sessions[autoreq.sid].status = ACTIVE

\* C6: the outcome reported when the round cap is reached with the session
\* still ACTIVE is distinct from VICTORY, DEFEAT and FLED and from every
\* outcome reported when the cap was not reached.
TimeoutOutcomeDistinct ==
    auto_outcomes.cap \cap (Terminal \cup auto_outcomes.nocap) = {}

(***************************************************************************)
(* Properties of one action request                                        *)
(***************************************************************************)
\* what the last action request did, by kind
Did(kind) == {e \in trace.ev : e.kind = kind}
PlayerActed == {e \in Did("act") : e.by = 0}
NoEnemyPhase ==
    /\ Did("phase") = {}
    /\ Did("tick") = {}
    /\ \A e \in Did("act") \cup Did("hit") : e.by = 0

FleeDecidedByDraw ==
    \A e \in Did("flee") :
        LET below == e.roll * 200 < 100 * 100 + e.speed * 100
        IN  /\ trace.status = FLED <=> below
            /\ e.speed >= 100 => trace.status = FLED
            /\ below => NoEnemyPhase /\ trace.lines = 1
            /\ ~below => Did("phase") # {} /\ Did("tick") # {}

\* C15: after the player's defend, every enemy hit of the enemy phase that
\* follows, not only the first, is computed from the base damage halved by
\* integer division before the critical and variance factors, and is at
\* least 1.
DefendHalvesEveryHit ==
    (trace.data.action_type = "defend" /\ trace.code = 200) =>
        \A e \in Did("hit") :
            LET base == Max(1, e.attack - (e.defense \div 2))
                halved == base \div 2
                Final(c, v) == Max(1, Trunc((IF c THEN Trunc(halved * 15, 10) ELSE halved) * e.mult * v, 1000))
            IN  /\ e.on = 0 /\ e.by # 0
                /\ e.defending
                /\ e.damage >= 1
                /\ \E c \in BOOLEAN, v \in 90..110 : e.damage = Final(c, v)

\* a defend request whose enemy phase had both enemies hit the player
BothEnemiesHitTheDefender ==
    /\ trace.data.action_type = "defend" /\ trace.code = 200
    /\ \E e1, e2 \in Did("hit") : e1.by = 1 /\ e2.by = 2 /\ e1.on = 0 /\ e2.on = 0

\* C16: for every entity, player or enemy, the defending flag set by its own
\* defend is cleared when that entity next acts: an entity that has just
\* finished an action other than defend does not carry the flag.
DefendEndsAtNextAction ==
    \A e \in Did("act") :
        e.defending => \/ e.what = "defend"
                       \/ e.by = 0 /\ trace.data.action_type = "defend"

\* a step that is one whole action request
ActionStep == Idle /\ autoreq' = autoreq /\ resp'.req = "action"

InvalidActionErrors == {"no_target", "bad_target", "no_skill", "not_learned"}

\* C17: an action request rejected as invalid (unknown or perished explicit
\* target, no living target, skill id missing, skill not owned) leaves the
\* whole session unchanged, the player's defending flag, the log and the turn
\* counter included, and runs no enemy phase.
RejectedActionChangesNothing ==
    [][(ActionStep /\ resp'.code = 400 /\ resp'.error \in InvalidActionErrors)
          => /\ combat_sessions' = combat_sessions
             /\ \A e \in trace'.ev : e.kind # "phase"]_vars

\* the request names an explicit target that is perished in s or is not one
\* of its enemies
ExplicitTargetGone(s, data) ==
    /\ data.target_id # 0
    /\ \A i \in 1..Len(s.enemies) : s.enemies[i].id = data.target_id => s.enemies[i].hp <= 0

\* hp, stats and status lists of every entity of the session
Combatants(s) == <<[s.player EXCEPT !.is_defending = FALSE], s.enemies>>

\* C18: a skill action naming an explicit single target that is already
\* perished or absent from the opposing side is rejected as invalid: no effect
\* is applied, no enemy phase runs and the turn counter does not advance.
SkillOnGoneTargetRejected ==
    [][\A sid \in DOMAIN combat_sessions :
          (/\ ActionStep /\ resp'.sid = sid
           /\ trace'.data.action_type = "skill"
           /\ ExplicitTargetGone(combat_sessions[sid], trace'.data))
          => /\ resp'.code = 400
             /\ Combatants(combat_sessions'[sid]) = Combatants(combat_sessions[sid])
             /\ combat_sessions'[sid].turn_count = combat_sessions[sid].turn_count
             /\ \A e \in trace'.ev : e.kind # "phase"]_vars

\* session and rewards after the requests d1 then d2, each served alone
SerialOutcomes(s0, c0, d1, d2) ==
    UNION {{<<o2.s, c0 + (IF o1.credit THEN 1 ELSE 0) + (IF o2.credit THEN 1 ELSE 0)>> :
               o2 \in ActionOutcomes(o1.s, d2.action_type, d2.target_id, d2.skill_id, d2.heal_amount)} :
           o1 \in ActionOutcomes(s0, d1.action_type, d1.target_id, d1.skill_id, d1.heal_amount)}

\* C19: two action requests executing concurrently against the same session
\* are serialized: once both have answered, the session (entities, status,
\* turn counter, log) and the reward credited to the player are what the two
\* requests give when run one after the other in some order.
ConcurrentActionsSerialized ==
    (Len(inflight.entered) = 2 /\ inflight.pending = {}) =>
        LET d1 == inflight.entered[1]
            d2 == inflight.entered[2]
        IN  <<combat_sessions[inflight.sid], credited>>
                \in SerialOutcomes(inflight.base, inflight.credited, d1, d2)
                     \cup SerialOutcomes(inflight.base, inflight.credited, d2, d1)

\* the session a step is addressed to: the one of the auto request being
\* served or accepted, else the one of the request just answered
Addressed == IF autoreq.active THEN autoreq.sid ELSE IF autoreq'.active THEN autoreq'.sid ELSE resp'.sid

\* the answer and the session a request gives when served on session s
Served(s, d) ==
    {<<o.s, o.code, o.error, o.credit>> :
        o \in ActionOutcomes(s, d.action_type, d.target_id, d.skill_id, d.heal_amount)}

\* session b as request da on session a can leave it
BesideServed(reg, a, da, b) ==
    {WriteSession(reg, a, o.s)[b] :
        o \in ActionOutcomes(reg[a], da.action_type, da.target_id, da.skill_id, da.heal_amount)}

\* a request on one session gives the same whether it is served before or
\* after a request on another session
OrderIrrelevant ==
    \A a, b \in DOMAIN combat_sessions : a # b =>
        \A da, db \in TwoRequests :
            \A sb \in BesideServed(combat_sessions, a, da, b) :
                Served(sb, db) = Served(combat_sessions[b], db)

\* a step leaves every session it is not addressed to as it was
OtherSessionsKept ==
    \A sid \in DOMAIN combat_sessions :
        sid # Addressed => sid \in DOMAIN combat_sessions' /\ combat_sessions'[sid] = combat_sessions[sid]

TerminalSessionsRemoved ==
    \A sid \in SessionIds :
        (sid \in DOMAIN combat_sessions /\ combat_sessions[sid].status \in Terminal)
            ~> (sid \notin DOMAIN combat_sessions)

\* hp, stats, status lists and defending flag of an entity
Condition(e) == [e EXCEPT !.skills = <<>>]

\* C22: two identically constructed sessions that receive the same action
\* sequence and the same sequence of random draws have the same log, the same
\* entity states (hp, stats, status lists, defending flags) and the same
\* status.
ReplayReproduces ==
    DOMAIN combat_sessions = {"s1", "s2"} =>
        LET a == combat_sessions["s1"]
            b == combat_sessions["s2"]
        IN  /\ a.log = b.log
            /\ a.status = b.status
            /\ a.turn_count = b.turn_count
            /\ Condition(a.player) = Condition(b.player)
            /\ \A i \in 1..Len(a.enemies) : Condition(a.enemies[i]) = Condition(b.enemies[i])

\* every drawn request leaves a session the handler of Part I can leave
DrawnIsServed ==
    \A sid \in DOMAIN combat_sessions : \A data \in TwinRequests, d \in Draws :
        ActionDrawn(combat_sessions[sid], data, d)
            \in {o.s : o \in ActionOutcomes(combat_sessions[sid], data.action_type, data.target_id, data.skill_id, data.heal_amount)}

\* C23: the plain-attack damage of an attacker of sect S1 against a defender
\* of sect S2 is the damage of the call scaled by the faction advantage of
\* (S1, S2) - more than unscaled when the advantage is above 1, less when it
\* is below - and comes with a message naming both sects; when either has no
\* sect the damage is unscaled and no sect is named.
SectAdvantageScalesDamage ==
    strike.result # NoStrike =>
        LET S1 == strike.attacker_sect
            S2 == strike.defender_sect
            adv == IF S1 = "" \/ S2 = "" THEN 100 ELSE get_sect_advantage(S1, S2)
            unscaled == calculate_damage(SectEntity(0, S1, strike.attack, "player", FALSE),
                                         SectEntity(1, S2, 50, "enemy", strike.defending),
                                         10, strike.crit, strike.var)
        IN  /\ adv > 100 => /\ strike.result.damage > unscaled
                            /\ strike.result.named = {S1, S2}
            /\ adv < 100 => /\ strike.result.damage < unscaled
                            /\ strike.result.named = {S1, S2}
            /\ (S1 = "" \/ S2 = "") => /\ strike.result.damage = unscaled
                                       /\ strike.result.named = {}

\* number of entries of a status list equal to x
Occurs(buffs, x) == Cardinality({k \in DOMAIN buffs : buffs[k] = x})

\* the entry an event of kind "status" says was appended
EntryOf(e) == [type |-> e.what, duration |-> e.duration, value |-> e.value]

\* C24: every application of a buff / debuff id appends an entry of its own to
\* the target's status list, so n applications leave n entries, and the
\* status pass takes one turn off every entry and drops an entry exactly when
\* its own duration runs out, whatever the other entries of the same id are:
\* for every entity r and entry x, an action request that ran the pass on r
\* leaves as many entries x as there were entries one turn longer than x
\* before the pass (held before the request or appended by it), none with no
\* turn left; a request that did not run the pass on r leaves the held and
\* the appended entries.
StatusEntriesIndependent ==
    [][\A sid \in DOMAIN combat_sessions :
          (ActionStep /\ resp'.sid = sid /\ resp'.code = 200)
          => \A r \in 0..Len(combat_sessions[sid].enemies) :
                LET before == Ent(combat_sessions[sid], r).buffs
                    after == Ent(combat_sessions'[sid], r).buffs
                    applied == {e \in trace'.ev : e.kind = "status" /\ e.on = r}
                    held(x) == Occurs(before, x)
                               + Cardinality({e \in applied : EntryOf(e) = x})
                    entries == {before[k] : k \in DOMAIN before}
                               \cup {after[k] : k \in DOMAIN after}
                               \cup {EntryOf(e) : e \in applied}
                    passed == \A x \in entries \cup {[y EXCEPT !.duration = @ - 1] : y \in entries} :
                                 Occurs(after, x) = IF x.duration >= 1
                                                    THEN held([x EXCEPT !.duration = @ + 1])
                                                    ELSE 0
                    kept == \A x \in entries : Occurs(after, x) = held(x)
                    ran == \E e \in trace'.ev : e.kind = "tick"
                IN  /\ ~ran => kept
                    /\ ran /\ Ent(combat_sessions'[sid], r).hp > 0 => passed
                    /\ ran => passed \/ kept]_vars

\* a request has just appended a status to an entity that held one of the
\* same type, and the pass has left the two with different turns to run
SameStatusHeldTwice ==
    \E sid \in DOMAIN combat_sessions : \E r \in 0..Len(combat_sessions[sid].enemies) :
        LET buffs == Ent(combat_sessions[sid], r).buffs
        IN  /\ trace.sid = sid /\ trace.code = 200
            /\ \E e \in Did("tick") : TRUE
            /\ \E e \in Did("status") : e.on = r /\
                  \E j, k \in DOMAIN buffs :
                     /\ j < k
                     /\ buffs[j].type = e.what /\ buffs[k].type = e.what
                     /\ buffs[j].duration = e.duration - 2
                     /\ buffs[k].duration = e.duration - 1

\* C25: the turn_order of every session, ordinary or PvP, lists every
\* participant once (0 the player, i the i-th enemy), by speed at creation
\* descending, equal speeds in insertion order, and is never changed after
\* the session is created.
TurnOrderBySpeed ==
    [][\A sid \in DOMAIN combat_sessions' :
          LET s == combat_sessions'[sid]
              order == s.turn_order
          IN  IF sid \in DOMAIN combat_sessions
              THEN order = combat_sessions[sid].turn_order
              ELSE /\ Len(order) = Len(s.enemies) + 1
                   /\ {order[k] : k \in DOMAIN order} = 0..Len(s.enemies)
                   /\ \A j, k \in DOMAIN order :
                         j < k => \/ Ent(s, order[j]).speed > Ent(s, order[k]).speed
                                  \/ /\ Ent(s, order[j]).speed = Ent(s, order[k]).speed
                                     /\ order[j] < order[k]]_vars

\* hp, defending flag and status list of every entity of a session
Shape(s) ==
    [r \in 0..Len(s.enemies) |-> <<Ent(s, r).hp, Ent(s, r).is_defending, Ent(s, r).buffs>>]

\* a sub-step from s to s2 that changed an entity appended to the log
Logged(s, s2) == Shape(s2) # Shape(s) => s2.log > s.log

\* the valid attack, skill, defend and item requests of a session whose
\* player's stance has been reset
ValidMoves(s1) ==
    {data \in ActionRequests \cup StatusRequests :
        LET t == ResolveTarget(s1, data.target_id)
        IN  \/ data.action_type \in {"defend", "item"}
            \/ data.action_type = "attack" /\ t >= 1 /\ s1.enemies[t].hp > 0
            \/ /\ data.action_type = "skill"
               /\ t >= 1
               /\ \E k \in 1..Len(s1.player.skills) : s1.player.skills[k] = data.skill_id}

ManualMovesLogged(s) ==
    LET s1 == [s EXCEPT !.player.is_defending = FALSE]
    IN  \A data \in ValidMoves(s1) :
           \A s2 \in PlayerMove(s1, data.action_type, ResolveTarget(s1, data.target_id),
                                data.skill_id, data.heal_amount) : Logged(s1, s2)

EnemyActionsLogged(s) ==
    \A i \in 1..Len(s.enemies) : \A s2 \in EnemyAct(s, i) : Logged(s, s2)

DotTicksLogged(s) ==
    \A r \in 0..Len(s.enemies) :
       (/\ Ent(s, r).hp > 0
        /\ \E k \in DOMAIN Ent(s, r).buffs :
              Ent(s, r).buffs[k].type = "dot" /\ Ent(s, r).buffs[k].duration > 0)
       => Logged(s, SetEnt(s, r, TickEntity(Ent(s, r))))

AutoMovesLogged(s) ==
    AliveEnemies(s) # {} => \A s2 \in AutoPlayerMove(s) : Logged(s, s2)

\* C26: every sub-step that changes an entity's hp, defending flag or status
\* list - the player's attack, skill, defend or item, each enemy action and
\* each dot tick, in manual and in automatic mode - appends at least one
\* entry to the session log.
EveryChangeLogged ==
    \A sid \in DOMAIN combat_sessions :
        LET s == combat_sessions[sid]
        IN  (s.status = ACTIVE /\ s.player.hp > 0)
            => /\ ManualMovesLogged(s)
               /\ EnemyActionsLogged(s)
               /\ DotTicksLogged(s)
               /\ AutoMovesLogged(s)

(***************************************************************************)
(* Properties of the enemy phase                                           *)
(***************************************************************************)
\* the status pass has taken one turn off every entry of a list: of every
\* entry x it leaves as many as there were entries one turn longer, held
\* before the request or appended by it, and none with no turn left
TickedOnce(before, applied, after) ==
    LET held(x) == Occurs(before, x) + Cardinality({e \in applied : EntryOf(e) = x})
        entries == {before[k] : k \in DOMAIN before}
                   \cup {after[k] : k \in DOMAIN after}
                   \cup {EntryOf(e) : e \in applied}
    IN  \A x \in entries \cup {[y EXCEPT !.duration = @ - 1] : y \in entries} :
           Occurs(after, x) = IF x.duration >= 1
                              THEN held([x EXCEPT !.duration = @ + 1])
                              ELSE 0

\* the status pass has left a list alone: it holds the entries held before
\* the request and those the request appended
KeptAll(before, applied, after) ==
    \A x \in {before[k] : k \in DOMAIN before} \cup {after[k] : k \in DOMAIN after}
              \cup {EntryOf(e) : e \in applied} :
       Occurs(after, x) = Occurs(before, x) + Cardinality({e \in applied : EntryOf(e) = x})

\* the magnitudes of the damage-over-time entries of a list, and of those
\* among the entries a request appended, added up
RECURSIVE DotOfList(_)
DotOfList(buffs) ==
    IF buffs = <<>> THEN 0
    ELSE (IF Head(buffs).type = "dot" THEN Head(buffs).value ELSE 0) + DotOfList(Tail(buffs))
RECURSIVE DotOfApplied(_)
DotOfApplied(applied) ==
    IF applied = {} THEN 0
    ELSE LET e == CHOOSE x \in applied : TRUE
         IN  (IF e.what = "dot" THEN e.value ELSE 0) + DotOfApplied(applied \ {e})

\* the actions of the enemies in the last action request
EnemyActs(ev) == {e \in ev : e.kind = "act" /\ e.by >= 1}

\* C31: in each enemy phase every enemy that has hp > 0 and no stun entry
\* when the phase starts performs exactly one action - an attack or a skill
\* against the player, a defend or a wait - and the actions come in list
\* order; an enemy with hp 0 or with a stun entry performs none; a stunned
\* living enemy has every status entry ticked in that phase; and no enemy
\* hit lands on a player whose hp is already 0.
EnemyPhaseRule ==
    [][\A sid \in DOMAIN combat_sessions :
          (ActionStep /\ resp'.sid = sid /\ resp'.code = 200)
          => \A ph \in {e \in trace'.ev : e.kind = "phase"} :
                LET acts == EnemyActs(trace'.ev)
                    enemies == 1..Len(combat_sessions[sid].enemies)
                IN  /\ \A i \in enemies :
                          Cardinality({e \in acts : e.by = i}) = IF i \in ph.able THEN 1 ELSE 0
                    /\ \A e \in acts : e.what \in {"attack", "skill", "defend", "wait"}
                    /\ \A e1, e2 \in acts : e1.by < e2.by => e1.at < e2.at
                    /\ \A e1, e2 \in acts : e1.at = e2.at => e1 = e2
                    /\ \A i \in ph.living \ ph.able :
                          TickedOnce(combat_sessions[sid].enemies[i].buffs,
                                     {e \in trace'.ev : e.kind = "status" /\ e.on = i},
                                     combat_sessions'[sid].enemies[i].buffs)
                    /\ \A h \in {e \in trace'.ev : e.kind = "hit"} :
                          h.by >= 1 => h.on = 0 /\ h.hp > 0]_vars

\* a phase of two living enemies in which the first, stunned and poisoned,
\* took no action and the second struck the player
StunnedEnemySkipped ==
    /\ trace.code = 200
    /\ \E ph \in Did("phase") : ph.living = {1, 2} /\ ph.able = {2}
    /\ \E e \in EnemyActs(trace.ev) : e.by = 2 /\ e.what \in {"attack", "skill"}
    /\ \E h \in Did("hit") : h.by = 2
    /\ trace.sid \in DOMAIN combat_sessions
    /\ \E k \in DOMAIN combat_sessions[trace.sid].enemies[1].buffs :
          combat_sessions[trace.sid].enemies[1].buffs[k].type = "dot"

\* C32: one status tick of an entity with hp > 0 takes the magnitude of each
\* damage-over-time entry off its hp, stopping at 0, takes exactly one turn
\* off every entry and removes exactly the entries left with no turn; an
\* entity with hp 0 is not ticked (hp and entries stay); and after the tick
\* every entry left has at least one turn.
StatusTickRule ==
    [][\A sid \in DOMAIN combat_sessions :
          (ActionStep /\ resp'.sid = sid /\ resp'.code = 200)
          => \A t \in {e \in trace'.ev : e.kind = "tick"} :
                LET before == Ent(combat_sessions[sid], t.on).buffs
                    applied == {e \in trace'.ev : e.kind = "status" /\ e.on = t.on}
                    after == Ent(combat_sessions'[sid], t.on)
                IN  IF t.hp <= 0
                    THEN /\ after.hp = t.hp
                         /\ KeptAll(before, applied, after.buffs)
                    ELSE /\ after.hp = Max(0, t.hp - DotOfList(before) - DotOfApplied(applied))
                         /\ TickedOnce(before, applied, after.buffs)
                         /\ \A k \in DOMAIN after.buffs : after.buffs[k].duration >= 1]_vars

\* a pass that found one enemy with hp 0, still poisoned, and left its entry
\* alone, and took the poison off the hp of the other and a turn off its entry
PoisonTickedOnLivingOnly ==
    /\ trace.code = 200
    /\ trace.sid \in DOMAIN combat_sessions
    /\ LET s == combat_sessions[trace.sid]
       IN  /\ Len(s.enemies) = 2
           /\ \E t \in Did("tick") : t.on = 1 /\ t.hp = 0
           /\ \E k \in DOMAIN s.enemies[1].buffs : s.enemies[1].buffs[k].type = "dot"
           /\ \E t \in Did("tick") :
                 /\ t.on = 2 /\ t.hp > s.enemies[2].hp
                 /\ \E k \in DOMAIN s.enemies[2].buffs :
                       /\ s.enemies[2].buffs[k].type = "dot"
                       /\ s.enemies[2].buffs[k].duration = 2

\* C36: no entity with hp 0 performs an attack or a skill, in manual and in
\* automatic mode: no step of a request that finds the player with hp <= 0
\* lowers the hp, or lengthens the status list, of an enemy, and none sets
\* the defending flag of an enemy it finds with hp <= 0.
PerishedNeverActs ==
    [][\A sid \in DOMAIN combat_sessions :
          LET before == combat_sessions[sid]
              after == combat_sessions'[sid]
          IN  \A i \in 1..Len(before.enemies) :
                 /\ before.player.hp <= 0
                       => /\ after.enemies[i].hp >= before.enemies[i].hp
                          /\ Len(after.enemies[i].buffs) <= Len(before.enemies[i].buffs)
                 /\ before.enemies[i].hp <= 0
                       => after.enemies[i].is_defending = before.enemies[i].is_defending]_vars

BothDownIsDefeat ==
    [][\A sid \in DOMAIN combat_sessions' :
          LET s == combat_sessions'[sid]
          IN  (/\ ~autoreq'.active
               /\ resp'.sid = sid
               /\ s.player.hp <= 0
               /\ \A i \in 1..Len(s.enemies) : s.enemies[i].hp <= 0)
              => /\ s.status = DEFEAT
                 /\ credited' = credited]_vars

(***************************************************************************)
(* Properties of the damage calculator                                     *)
(***************************************************************************)
Resolved == hit.result # NoResult /\ ~hit.result.dodged

\* C7: when the counter table lists B among the elements A beats, A
\* attacking a defender of element B is multiplied by 1.5; when B beats A
\* and A does not beat B, by 0.75.
CounterMultiplier ==
    Resolved =>
        LET A == hit.element
            B == hit.defender.element
        IN  /\ B \in ELEMENT_COUNTERS(A) => hit.result.element_multiplier = 150
            /\ (A \in ELEMENT_COUNTERS(B) /\ B \notin ELEMENT_COUNTERS(A))
               => hit.result.element_multiplier = 75

\* C8: every hit that is not dodged has damage >= 1.
NonDodgedDamagePositive ==
    Resolved => hit.result.damage >= 1

\* C27: the heal amount is max(1, base_value + caster[scaling_stat] *
\* scaling_multiplier) times the target's healing-received multiplier, cut to
\* an integer where it is added to hp, and the target's hp after the heal is
\* at most its max_hp.
HealAmountFloorThenBonus ==
    hit.result # NoResult =>
        LET base_heal == hit.base_value * 10 + hit.caster.intellect * hit.scaling_multiplier
        IN  /\ hit.result.heal_value
                  = Trunc(Max(10, base_heal) * hit.target.healing_received, 1000)
            /\ hit.target.hp <= hit.target.max_hp

\* C28: the damage of a non-dodged hit is computed without intermediate
\* rounding and cut to an integer once: it is the truncation of
\* max(1, base_value + attacker[scaling_stat] * scaling_multiplier -
\* defense * 0.5) * element multiplier * crit multiplier, the mitigation and
\* its floor being skipped for true damage.
DamageTruncatedOnce ==
    Resolved =>
        LET defense_stat == IF hit.damage_type = "PHYSICAL" THEN hit.defender.defense
                            ELSE hit.defender.magic_resist
            \* in tenths
            base_damage == hit.base_value * 10
                           + hit.attacker[hit.scaling_stat] * hit.scaling_multiplier
            mitigated == IF hit.damage_type = "TRUE" THEN base_damage
                         ELSE Max(10, base_damage - defense_stat * 5)
            crit == IF hit.result.is_crit THEN hit.attacker.crit_damage ELSE 100
        IN  hit.result.damage
               = Trunc(mitigated * hit.result.element_multiplier * crit, 100000)

(***************************************************************************)
(* Properties of the skill executor                                        *)
(***************************************************************************)
Executed(k) == call'.n = call.n + 1 /\ call'.op = "execute_skill" /\ call'.skill_id = k
Reduced(k) == call'.n = call.n + 1 /\ call'.op = "reduce_cooldown" /\ call'.skill_id = k

\* C9: execute_skill on a skill that is on cooldown, or whose mp_cost or
\* hp_cost exceeds the caster's mp or hp, returns an empty list and changes
\* neither the caster, nor the skill, nor any candidate target.
GateFailureIsNoOp ==
    [][\A k \in DOMAIN SkillBook :
          (/\ Executed(k)
           /\ \/ skill[k].current_cooldown > 0
              \/ skill[k].mp_cost > unit[Caster].mp
              \/ skill[k].hp_cost > unit[Caster].hp)
          => actions' = <<>> /\ unit' = unit /\ skill' = skill]_vars

\* a skill that is off cooldown and affordable in mp was refused for its hp cost
RefusedForHpCost ==
    /\ call.op = "execute_skill"
    /\ ~call.gate
    /\ skill[call.skill_id].current_cooldown = 0
    /\ skill[call.skill_id].mp_cost <= unit[Caster].mp
    /\ skill[call.skill_id].hp_cost > unit[Caster].hp
    /\ actions = <<>>

\* C10: a successful execute_skill leaves current_cooldown = cooldown; each
\* reduce_cooldown lowers it by one, not below 0; a use attempted before
\* cooldown reductions have been made returns an empty list and leaves the
\* caster's mp and hp alone; after cooldown reductions the skill is off
\* cooldown again.
CooldownCycle ==
    [][\A k \in DOMAIN SkillBook :
          /\ (Executed(k) /\ call'.gate /\ skill[k].cooldown > 0)
             => skill'[k].current_cooldown = skill[k].cooldown
          /\ Reduced(k)
             => skill'[k].current_cooldown = Max(0, skill[k].current_cooldown - 1)
          /\ (Executed(k) /\ call.since[k] >= 0 /\ call.since[k] < skill[k].cooldown)
             => /\ actions' = <<>>
                /\ unit'[Caster].mp = unit[Caster].mp
                /\ unit'[Caster].hp = unit[Caster].hp
          /\ (call.since[k] >= skill[k].cooldown /\ call.since[k] >= 0)
             => skill[k].current_cooldown = 0]_vars

\* a skill with a cooldown was used, cooled down and used again
UsedAgainAfterCooldown ==
    /\ call.op = "execute_skill"
    /\ call.gate
    /\ skill[call.skill_id].cooldown > 0
    /\ call.waited >= skill[call.skill_id].cooldown

\* the candidates that are not perished, in candidate order
Unperished(units) == SelectSeq(Candidates, LAMBDA c : ~units[c].is_dead)

\* C12: an execute_skill call with target rule ALL_ENEMIES that passes the
\* gate returns exactly one action for each candidate that is not perished
\* when the call starts, in candidate order, and leaves every perished
\* candidate as it was.
AreaHitsTheLiving ==
    [][\A k \in DOMAIN SkillBook :
          (Executed(k) /\ call'.gate /\ skill[k].target_type = "ALL_ENEMIES")
          => LET living == Unperished(unit)
             IN  /\ Len(actions') = Len(living)
                 /\ \A i \in 1..Len(living) :
                       /\ actions'[i].target_id = living[i]
                       /\ actions'[i].caster_id = Caster
                 /\ \A i \in 1..Len(Candidates) :
                       unit[Candidates[i]].is_dead
                       => unit'[Candidates[i]] = unit[Candidates[i]]]_vars

\* an area skill went through with one candidate perished and the other not
AreaSkillSkippedThePerished ==
    /\ call.op = "execute_skill"
    /\ call.gate
    /\ skill[call.skill_id].target_type = "ALL_ENEMIES"
    /\ unit["t2"].is_dead
    /\ Len(actions) = 1
    /\ actions[1].target_id = "t1"

\* the units a target rule names, for the caster and the candidates
RuleTargets(rule, units) ==
    LET living == Unperished(units)
    IN  CASE rule = "SELF" -> <<Caster>>
          [] rule = "SINGLE_ENEMY" -> IF living = <<>> THEN <<>> ELSE <<living[1]>>
          [] rule = "SINGLE_ALLY" -> IF living = <<>> THEN <<Caster>> ELSE <<living[1]>>
          [] rule = "ALL_ALLIES" -> <<Caster>> \o living
          [] OTHER -> living

\* the effects of a call stopped at the one that left unit u, as it is in
\* after, flagged perished: after is what some effect j leaves of u when the
\* effects before j have not flagged it
StoppedWhenPerished(units, effects, u, after) ==
    \E j \in 1..Len(effects) :
       \E before \in EffectLoop([units |-> units, total_value |-> 0, is_crit |-> FALSE],
                                 SubSeq(effects, 1, j - 1), Caster, u, 1) :
          /\ ~before.units[u].is_dead
          /\ \E st \in EffectLoop(before, SubSeq(effects, 1, j), Caster, u, j) :
                st.units[u] = after

\* C33: a call that passes the gate acts on the units its target rule names
\* - SELF the caster, SINGLE_ENEMY the first candidate not perished,
\* SINGLE_ALLY the first candidate not perished or else the caster,
\* ALL_ALLIES the caster and then every candidate not perished - and no unit
\* flagged perished receives an effect: a unit perished when the call starts
\* is left as it was, and a unit flagged during the call is left as the
\* effect that flagged it left it.
TargetRuleFollowed ==
    [][\A k \in DOMAIN skill :
          (Executed(k) /\ call'.gate)
          => /\ [i \in 1..Len(actions') |-> actions'[i].target_id]
                   = RuleTargets(skill[k].target_type, unit)
             /\ \A u \in DOMAIN unit :
                   /\ unit[u].is_dead => unit'[u] = unit[u]
                   /\ (~unit[u].is_dead /\ unit'[u].is_dead)
                      => StoppedWhenPerished([unit EXCEPT ![Caster].mp = @ - skill[k].mp_cost,
                                                         ![Caster].hp = @ - skill[k].hp_cost],
                                             skill[k].effects, u, unit'[u])]_vars

\* C34: whenever execute_skill returns an empty list, the caster's mp and hp
\* and the skill's current_cooldown are as before the call, also when the
\* gate was passed and no target was reached.
UnansweredUseIsFree ==
    [][\A k \in DOMAIN SkillBook :
          (Executed(k) /\ actions' = <<>>)
          => /\ unit'[Caster].mp = unit[Caster].mp
             /\ unit'[Caster].hp = unit[Caster].hp
             /\ skill'[k].current_cooldown = skill[k].current_cooldown]_vars

\* C35: after any sequence of execute_skill calls every unit is flagged
\* perished exactly when its hp is 0, whether the hp was lost to damage or
\* paid as a cost, and no perished unit has hp > 0.
PerishedIffNoHp ==
    \A u \in DOMAIN unit : unit[u].is_dead <=> unit[u].hp = 0

(***************************************************************************)
(* Properties of the skill registry                                        *)
(***************************************************************************)
Templates == {SKILL_REGISTRY[id] : id \in DOMAIN SKILL_REGISTRY}

\* C11: whatever get_skill / clone calls are made and whatever cooldown
\* changes or executions run on the instances handed out, every template in
\* the registry keeps its current_cooldown and effect list, a step changes at
\* most one skill object, and a clone starts with the skill id and
\* current_cooldown of the skill it was cloned from.
ClonesAreIndependent ==
    [][/\ SKILL_REGISTRY' = SKILL_REGISTRY
       /\ \A a \in Templates :
             /\ heap'.skills[a].current_cooldown = heap.skills[a].current_cooldown
             /\ Deref(heap', a).effects = Deref(heap, a).effects
       /\ \A a, b \in 1..Len(heap.skills) :
             (a # b /\ Deref(heap', a) # Deref(heap, a)) => Deref(heap', b) = Deref(heap, b)
       /\ regcall'.op \in {"get_skill", "clone"} /\ regcall'.ref # 0 /\ heap' # heap
          => /\ regcall'.ref \notin 1..Len(heap.skills)
             /\ heap'.skills[regcall'.ref].skill_id = heap.skills[regcall'.src].skill_id
             /\ heap'.skills[regcall'.ref].current_cooldown
                    = heap.skills[regcall'.src].current_cooldown]_vars

\* a clone was taken of an instance on cooldown, while the template and
\* another instance of the same skill are off cooldown
CloneOfCoolingInstance ==
    /\ regcall.op = "clone"
    /\ heap.skills[regcall.ref].current_cooldown > 0
    /\ heap.skills[regcall.src].current_cooldown > 0
    /\ \E a \in Templates, b \in regcall.held :
          /\ heap.skills[a].skill_id = heap.skills[regcall.ref].skill_id
          /\ heap.skills[a].current_cooldown = 0
          /\ heap.skills[b].skill_id = heap.skills[regcall.ref].skill_id
          /\ heap.skills[b].current_cooldown = 0

====
